---- MODULE Spec2Model ----
(***************************************************************************)
(* A state-machine model of the SolarSystem application:                   *)
(*   - the configuration registry of constants.py (PLANETS, the derived    *)
(*     tables, validate_planet_configuration and the import-time check),   *)
(*   - the start-up sequence of Main.py with the loader of                 *)
(*     CelestialBody.py,                                                   *)
(*   - the key handlers of ActionHandler.py.                               *)
(* Numbers that are fractional in the source (orbit_au, size_scale,        *)
(* year_factor, day_factor) are written in fixed point with four decimal   *)
(* places: 0.38 is 3800, 1.0 is 10000.  Play rates only ever hold whole    *)
(* numbers (1.0 at creation, then +1, -1, +100 or a constant), so a rate   *)
(* is modelled by the integer it equals.                                   *)
(***************************************************************************)
EXTENDS Integers, Sequences, FiniteSets, TLC

VARIABLES
    PLANETS,               \* constants.PLANETS, the body list
    PLANET_NAMES,          \* constants.PLANET_NAMES
    DEFAULT_TEXTURES,      \* constants.DEFAULT_TEXTURES
    PLANET_ANIMATIONS,     \* constants.PLANET_ANIMATIONS (the derived table)
    pc,                    \* position of the process in its start-up sequence
    exitStatus,            \* -1 while the process lives, else its exit status
    report,                \* what the process printed when it stopped at import
    setupLog,              \* the one-time set-up steps run so far, in order
    planets,               \* CelestialBody.planets: name -> Planet
    loadLog,               \* names handed to _load_planet / _load_moon, in order
    scene,                 \* the scene graph: node -> [parent, x]
    specialSun,            \* CelestialBody.specialSun (a node, or "None")
    cbAttDic,              \* animation key -> [rate, playing]
    cbAttTex,              \* "<name>" -> model node, "<name>Tex" -> texture
    applied,               \* model node -> the texture set on it (setTexture)
    simRunning,            \* ActionHandler.simRunning
    instructionsVisible,   \* ActionHandler.instructionsVisible
    usingOriginalTextures, \* ActionHandler.usingOriginalTextures
    text,                  \* the OnscreenText lines: attribute -> shown text
    lastKey,               \* history: the key handled last ("none" before any)
    failed,                \* history: the texture paths that failed to load in it
    before,                \* history: the handler state before lastKey
    pixel                  \* the pixel a texture generator wrote last, with its inputs

vars == <<PLANETS, PLANET_NAMES, DEFAULT_TEXTURES, PLANET_ANIMATIONS, pc,
          exitStatus, report, setupLog, planets, loadLog, scene, specialSun,
          cbAttDic, cbAttTex, applied, simRunning, instructionsVisible,
          usingOriginalTextures, text, lastKey, failed, before, pixel>>

\* the variables of the application process (all but the texture generators')
processVars == <<PLANETS, PLANET_NAMES, DEFAULT_TEXTURES, PLANET_ANIMATIONS, pc,
                 exitStatus, report, setupLog, planets, loadLog, scene, specialSun,
                 cbAttDic, cbAttTex, applied, simRunning, instructionsVisible,
                 usingOriginalTextures, text, lastKey, failed, before>>

constVars == <<PLANETS, PLANET_NAMES, DEFAULT_TEXTURES, PLANET_ANIMATIONS>>
loaderVars == <<planets, loadLog, scene, specialSun, cbAttDic, cbAttTex, applied>>
handlerVars == <<simRunning, instructionsVisible, usingOriginalTextures, text>>
historyVars == <<lastKey, failed, before>>

(***************************************************************************)
(* Small helpers for Python dicts and strings.                             *)
(***************************************************************************)
Has(d, k) == k \in DOMAIN d

\* dict.get(k, default)
Get(d, k, default) == IF Has(d, k) THEN d[k] ELSE default

\* d[k] = v on a dict (adds the key or overwrites it)
Put(d, k, v) == [x \in DOMAIN d \cup {k} |-> IF x = k THEN v ELSE d[x]]

EmptyDict == [x \in {} |-> x]

Range(s) == {s[i] : i \in DOMAIN s}

\* str.lower() on the letters the file names of the model use
LowerChar(c) ==
    CASE c = "J" -> "j" [] c = "P" -> "p" [] c = "G" -> "g"
      [] c = "N" -> "n" [] c = "E" -> "e" [] OTHER -> c

RECURSIVE Lower(_)
Lower(s) ==
    IF Len(s) = 0 THEN ""
    ELSE LowerChar(SubSeq(s, 1, 1)) \o Lower(SubSeq(s, 2, Len(s)))

\* str.endswith(suffix)
EndsWith(s, suffix) ==
    /\ Len(s) >= Len(suffix)
    /\ SubSeq(s, Len(s) - Len(suffix) + 1, Len(s)) = suffix

(***************************************************************************)
(* constants.py: scaling constants and asset paths.                        *)
(***************************************************************************)
ORBIT_SCALE == 10

MODELS_PATH == "../../models/"

\* The PLANETS literal of constants.py (fixed point, four decimal places).
BuiltinPLANETS ==
    << [name |-> "sun", orbit_au |-> 0, size_scale |-> 20000, year_factor |-> 0,
        day_factor |-> 200000, texture |-> "sun_1k_tex.jpg", has_orbit |-> FALSE],
       [name |-> "mercury", orbit_au |-> 3800, size_scale |-> 3850,
        year_factor |-> 2410, day_factor |-> 590000,
        texture |-> "mercury_1k_tex.jpg", has_orbit |-> TRUE],
       [name |-> "venus", orbit_au |-> 7200, size_scale |-> 9230,
        year_factor |-> 6150, day_factor |-> 2430000,
        texture |-> "venus_1k_tex.jpg", has_orbit |-> TRUE],
       [name |-> "earth", orbit_au |-> 10000, size_scale |-> 10000,
        year_factor |-> 10000, day_factor |-> 10000,
        texture |-> "earth_1k_tex.jpg", has_orbit |-> TRUE],
       [name |-> "moon", orbit_au |-> 1000, size_scale |-> 1000,
        year_factor |-> 749, day_factor |-> 749,
        texture |-> "moon_1k_tex.jpg", has_orbit |-> TRUE, parent |-> "earth"],
       [name |-> "mars", orbit_au |-> 15200, size_scale |-> 5150,
        year_factor |-> 18810, day_factor |-> 10300,
        texture |-> "mars_1k_tex.jpg", has_orbit |-> TRUE],
       [name |-> "jupiter", orbit_au |-> 20000, size_scale |-> 9230,
        year_factor |-> 30000, day_factor |-> 230000,
        texture |-> "jupiter.jpg", has_orbit |-> TRUE] >>

(***************************************************************************)
(* constants.py: the derived tables.  Each generator indexes the body      *)
(* dicts with planet["name"] / planet["texture"], which raises KeyError    *)
(* when the field is absent.                                               *)
(***************************************************************************)
\* _generate_planet_names raises KeyError
NamesRaise(P) == \E i \in DOMAIN P : ~Has(P[i], "name")

\* _generate_planet_names
_generate_planet_names(P) == [i \in DOMAIN P |-> P[i]["name"]]

\* _generate_default_textures raises KeyError
TexturesRaise(P) ==
    \E i \in DOMAIN P : ~Has(P[i], "name") \/ ~Has(P[i], "texture")

\* the index whose entry a dict built in list order keeps for key n: the last
LastIndexOf(P, n) ==
    CHOOSE i \in DOMAIN P :
        /\ P[i]["name"] = n
        /\ \A j \in DOMAIN P : P[j]["name"] = n => j <= i

\* _generate_default_textures with every name mapped to the first body's texture
DefaultTexturesOfFirstBody(P) ==
    [n \in {P[i]["name"] : i \in DOMAIN P} |-> P[1]["texture"]]

\* _generate_default_textures
_generate_default_textures(P) ==
    [n \in {P[i]["name"] : i \in DOMAIN P} |-> P[LastIndexOf(P, n)]["texture"]]

\* the key list with the orbit key given to every body that has_orbit, whatever
\* its distance
AnimationKeysIgnoringDistance(planet) ==
    LET name == planet["name"]
        keys == <<name \o "Day">>
    IN  IF Get(planet, "has_orbit", TRUE) THEN Append(keys, name \o "Orbit") ELSE keys

\* the key list built for one body by _generate_planet_animations
AnimationKeysOf(planet) ==
    LET name == planet["name"]
        keys == <<name \o "Day">>
    IN  IF Get(planet, "has_orbit", TRUE) /\ Get(planet, "orbit_au", 0) > 0
        THEN Append(keys, name \o "Orbit")
        ELSE keys

\* _generate_planet_animations
_generate_planet_animations(P) ==
    [n \in {P[i]["name"] : i \in DOMAIN P} |-> AnimationKeysOf(P[LastIndexOf(P, n)])]

(***************************************************************************)
(* constants.py: validate_planet_configuration.  The result is "ok" (the   *)
(* function returns True) or the ValueError it raises.                     *)
(***************************************************************************)
required_fields ==
    <<"name", "orbit_au", "size_scale", "year_factor", "day_factor", "texture",
      "has_orbit">>

ValueError(kind, i, name, detail) ==
    [kind |-> kind, index |-> i, name |-> name, detail |-> detail]

Accepted == ValueError("ok", 0, "", "")

\* the recognised image extensions
ImageExtensions == {".jpg", ".png", ".jpeg"}

\* the checks on body i with size_scale = 0 let through (< in place of <=)
ValidateBodyAllowingZeroSize(P, i, planet_names) ==
    LET planet == P[i]
        missing == {k \in DOMAIN required_fields : ~Has(planet, required_fields[k])}
    IN  IF missing # {}
        THEN ValueError("missing required field", i - 1, "",
                        required_fields[CHOOSE k \in missing : \A m \in missing : k <= m])
        ELSE LET name == planet["name"] IN
        IF name \in planet_names
        THEN ValueError("duplicate name", i - 1, name, "name")
        ELSE IF Has(planet, "parent") /\ planet["parent"] \notin planet_names \cup {name}
        THEN ValueError("parent not defined", i - 1, name, "parent")
        ELSE IF planet["size_scale"] < 0
        THEN ValueError("invalid size_scale", i - 1, name, "size_scale")
        ELSE IF planet["orbit_au"] < 0
        THEN ValueError("invalid orbit_au", i - 1, name, "orbit_au")
        ELSE IF ~\E e \in {".jpg", ".png", ".jpeg"} : EndsWith(Lower(planet["texture"]), e)
        THEN ValueError("texture without image extension", i - 1, name, "texture")
        ELSE Accepted

\* the checks made on body i (0-based index i - 1), planet_names being the names
\* of the bodies before it
ValidateBody(P, i, planet_names) ==
    LET planet == P[i]
        missing == {k \in DOMAIN required_fields : ~Has(planet, required_fields[k])}
    IN  IF missing # {}
        THEN ValueError("missing required field", i - 1, "",
                        required_fields[CHOOSE k \in missing : \A m \in missing : k <= m])
        ELSE LET name == planet["name"] IN
        IF name \in planet_names
        THEN ValueError("duplicate name", i - 1, name, "name")
        ELSE IF Has(planet, "parent") /\ planet["parent"] \notin planet_names \cup {name}
        THEN ValueError("parent not defined", i - 1, name, "parent")
        ELSE IF planet["size_scale"] <= 0
        THEN ValueError("invalid size_scale", i - 1, name, "size_scale")
        ELSE IF planet["orbit_au"] < 0
        THEN ValueError("invalid orbit_au", i - 1, name, "orbit_au")
        ELSE IF ~\E e \in ImageExtensions : EndsWith(Lower(planet["texture"]), e)
        THEN ValueError("texture without image extension", i - 1, name, "texture")
        ELSE Accepted

RECURSIVE ValidateFrom(_, _, _)
ValidateFrom(P, i, planet_names) ==
    IF i > Len(P) THEN Accepted
    ELSE LET r == ValidateBody(P, i, planet_names) IN
         IF r # Accepted THEN r
         ELSE ValidateFrom(P, i + 1, planet_names \cup {P[i]["name"]})

\* validate_planet_configuration
validate_planet_configuration(P) == ValidateFrom(P, 1, {})

(***************************************************************************)
(* CelestialBody.py: the loader.  Its state is threaded through the two    *)
(* passes as a record L; L.raised is set when a call raises an exception   *)
(* nothing catches (the rest of the start-up then never runs).             *)
(***************************************************************************)
ModelNode(name) == "model_" \o name

\* the node Planet._setup_orbit creates, kept as Planet.orbit_root
OrbitRootNode(name) == "orbit_root_" \o name

\* the node _load_moon creates under the parent's orbit root (its local
\* variable moon_orbit_root) and hands to Planet as parent_node
MoonOrbitRootNode(name) == "moon_orbit_root_" \o name

Node(parent, x) == [parent |-> parent, x |-> x]

NewLoader ==
    [planets |-> EmptyDict, loadLog |-> <<>>,
     scene |-> [n \in {"render"} |-> Node("None", 0)],
     specialSun |-> "None", cbAttTex |-> EmptyDict, applied |-> EmptyDict,
     raised |-> FALSE]

\* Planet.load that attaches every orbit root to the scene root
PlanetLoadSceneUnderRender(sc, config, parent_node) ==
    LET name == config["name"] IN
    IF Get(config, "has_orbit", TRUE) /\ config["orbit_au"] > 0
    THEN Put(Put(sc, OrbitRootNode(name), Node("render", 0)), ModelNode(name),
             Node(OrbitRootNode(name), config["orbit_au"] * ORBIT_SCALE))
    ELSE Put(sc, ModelNode(name), Node("render", 0))

\* Planet.load followed by Planet._setup_orbit: the nodes added to the scene
PlanetLoadScene(sc, config, parent_node) ==
    LET name == config["name"] IN
    IF Get(config, "has_orbit", TRUE) /\ config["orbit_au"] > 0
    THEN LET root == IF parent_node = "None" THEN "render" ELSE parent_node
             sc1 == Put(sc, OrbitRootNode(name), Node(root, 0))
         IN  Put(sc1, ModelNode(name),
                 Node(OrbitRootNode(name), config["orbit_au"] * ORBIT_SCALE))
    ELSE Put(sc, ModelNode(name), Node("render", 0))

\* str.startswith
StartsWith(s, prefix) == Len(s) >= Len(prefix) /\ SubSeq(s, 1, Len(prefix)) = prefix

\* Planet.__init__ setting an attribute for every config key that holds "custom_"
\* anywhere
AttributesOfKeysHoldingCustom(config) ==
    [key \in {k \in DOMAIN config :
                \E i \in 1 .. Len(k) : StartsWith(SubSeq(k, i, Len(k)), "custom_")}
        |-> config[key]]

\* the attributes Planet.__init__ sets from the config with setattr
CustomAttributes(config) ==
    [key \in {k \in DOMAIN config : StartsWith(k, "custom_")} |-> config[key]]

\* the Planet object after Planet.load; custom holds the attributes set by setattr
PlanetLoaded(config) ==
    LET name == config["name"] IN
    [name |-> name, config |-> config, model |-> ModelNode(name),
     texture |-> MODELS_PATH \o config["texture"],
     orbit_root |-> IF Get(config, "has_orbit", TRUE) /\ config["orbit_au"] > 0
                    THEN OrbitRootNode(name) ELSE "None",
     custom |-> CustomAttributes(config)]

\* the bookkeeping shared by _load_planet and _load_moon after planet.load()
StorePlanet(L, config, sc) ==
    LET name == config["name"]
        planet == PlanetLoaded(config)
    IN  [L EXCEPT !.planets = Put(@, name, planet),
                  !.scene = sc,
                  !.applied = Put(@, planet.model, planet.texture),
                  !.cbAttTex = Put(Put(@, name \o "Tex", planet.texture),
                                   name, planet.model)]

\* CelestialBody._load_planet
_load_planet(L, config) ==
    LET name == config["name"]
        L1 == StorePlanet([L EXCEPT !.loadLog = Append(@, name)], config,
                          PlanetLoadScene(L.scene, config, "None"))
    IN  IF name = "sun" THEN [L1 EXCEPT !.specialSun = ModelNode(name)] ELSE L1

\* _load_moon that places the node it creates at the moon's own orbital distance
LoadMoonAtOwnDistance(L, config) ==
    LET name == config["name"]
        parent_name == config["parent"]
        L0 == [L EXCEPT !.loadLog = Append(@, name)]
    IN  IF ~Has(L.planets, parent_name)
        THEN L0
        ELSE LET parent_orbit == L.planets[parent_name].orbit_root IN
             IF parent_orbit = "None"
             THEN [L0 EXCEPT !.raised = TRUE]
             ELSE LET sc == Put(L.scene, MoonOrbitRootNode(name),
                                Node(parent_orbit, config["orbit_au"] * ORBIT_SCALE))
                  IN  StorePlanet(L0, config,
                                  PlanetLoadScene(sc, config, MoonOrbitRootNode(name)))

\* CelestialBody._load_moon
_load_moon(L, config) ==
    LET name == config["name"]
        parent_name == config["parent"]
        L0 == [L EXCEPT !.loadLog = Append(@, name)]
    IN  IF ~Has(L.planets, parent_name)
        THEN L0                               \* error printed, moon skipped
        ELSE LET parent_orbit == L.planets[parent_name].orbit_root IN
             IF parent_orbit = "None"
             THEN [L0 EXCEPT !.raised = TRUE] \* None.attachNewNode: AttributeError
             ELSE LET sc == Put(L.scene, MoonOrbitRootNode(name),
                                Node(parent_orbit, ORBIT_SCALE * 10000))
                  IN  StorePlanet(L0, config,
                                  PlanetLoadScene(sc, config, MoonOrbitRootNode(name)))

\* one pass of loadAllCelestialBodys over PLANETS[i..]: moons = FALSE is the
\* first loop (bodies without "parent"), moons = TRUE the second
RECURSIVE LoadPass(_, _, _, _)
LoadPass(L, P, i, moons) ==
    IF i > Len(P) \/ L.raised THEN L
    ELSE IF Has(P[i], "parent") # moons THEN LoadPass(L, P, i + 1, moons)
    ELSE LoadPass(IF moons THEN _load_moon(L, P[i]) ELSE _load_planet(L, P[i]),
                  P, i + 1, moons)

\* loadAllCelestialBodys with its two loops in the other order
LoadMoonsFirst(L, P) == LoadPass(LoadPass(L, P, 1, TRUE), P, 1, FALSE)

\* CelestialBody.loadAllCelestialBodys
loadAllCelestialBodys(L, P) == LoadPass(LoadPass(L, P, 1, FALSE), P, 1, TRUE)

\* a looping interval right after loop(): play rate 1, playing
Interval == [rate |-> 1, playing |-> TRUE]

\* Planet.create_animations: the keys of the dict it returns
create_animations(planet) ==
    {planet.name \o "Day"} \cup
    (IF planet.orbit_root # "None" THEN {planet.name \o "Orbit"} ELSE {})

\* CelestialBody.rotateAllCelestialBodys: the cbAttDic it fills
rotateAllCelestialBodys(pl) ==
    [k \in UNION {create_animations(pl[n]) : n \in DOMAIN pl} |-> Interval]

(***************************************************************************)
(* ActionHandler.py: tables and pure helpers.                              *)
(***************************************************************************)
\* the class attribute ActionHandler.PLANET_ANIMATIONS (a literal of
\* ActionHandler.py, not the table derived in constants.py)
ActionHandler_PLANET_ANIMATIONS ==
    [sun |-> <<"sunDay">>,
     mercury |-> <<"mercuryDay", "mercuryOrbit">>,
     venus |-> <<"venusDay", "venusOrbit">>,
     earth |-> <<"earthDay", "earthOrbit">>,
     moon |-> <<"moonDay", "moonOrbit">>,
     mars |-> <<"marsDay", "marsOrbit">>,
     jupiter |-> <<"jupiterDay", "jupiterOrbit">>]

\* every key the loops over PLANET_ANIMATIONS.items() visit
HandlerKeys ==
    UNION {Range(ActionHandler_PLANET_ANIMATIONS[p]) :
           p \in DOMAIN ActionHandler_PLANET_ANIMATIONS}

\* the keys _unlimit names
earth_moon_keys == {"earthOrbit", "earthDay", "moonOrbit", "moonDay"}

\* the texture name each easter-egg key passes to _load_easter_egg_texture
EasterEggKeys ==
    [b |-> "borko", x |-> "team", y |-> "marm", c |-> "brezina", v |-> "testbild"]

\* the text each line is created with by _display_instructions
display_instructions ==
    [instructionText |-> "[I]: Hide Instructions",
     speedText |-> "Speed x 1",
     speedUpText |-> "[+]: SPEED UP!",
     slowDownText |-> "[-]: slow down...",
     toggleTextureText |-> "[T]: Toggle Texture",
     resetSolarSystemText |-> "[R]: Reset Solar System",
     easterEggText |-> "[X, Y, C, B, V]: Something Special",
     spaceKeyEventText |-> "[SPACE]: Toggle entire Solar System"]

\* _show_instructions leaving the toggle hint as _hide_instructions set it
ShowWithoutHint(t) ==
    [t EXCEPT !.spaceKeyEventText = "[SPACE]: Toggle entire Solar System",
              !.speedUpText = "[+]: SPEED UP!",
              !.slowDownText = "[-]: slow down...",
              !.toggleTextureText = "[T]: Toggle Texture",
              !.resetSolarSystemText = "[R]: Reset Solar System",
              !.easterEggText = "[X, Y, C, B, V]: Something Special"]

\* _show_instructions
_show_instructions(t) ==
    [t EXCEPT !.instructionText = "[I]: Hide Instructions",
              !.spaceKeyEventText = "[SPACE]: Toggle entire Solar System",
              !.speedUpText = "[+]: SPEED UP!",
              !.slowDownText = "[-]: slow down...",
              !.toggleTextureText = "[T]: Toggle Texture",
              !.resetSolarSystemText = "[R]: Reset Solar System",
              !.easterEggText = "[X, Y, C, B, V]: Something Special"]

\* _hide_instructions leaving the line of the space key as it is
HideAllButSpaceLine(t) ==
    [t EXCEPT !.speedUpText = "",
              !.slowDownText = "",
              !.toggleTextureText = "",
              !.resetSolarSystemText = "",
              !.easterEggText = "",
              !.instructionText = "[I]: Show Instructions"]

\* _hide_instructions
_hide_instructions(t) ==
    [t EXCEPT !.spaceKeyEventText = "",
              !.speedUpText = "",
              !.slowDownText = "",
              !.toggleTextureText = "",
              !.resetSolarSystemText = "",
              !.easterEggText = "",
              !.instructionText = "[I]: Show Instructions"]

\* _set_all_play_rates reaching only the first key of each planet (its Day key)
SetDayPlayRates(d, rate) ==
    [k \in DOMAIN d |->
        IF \E p \in DOMAIN ActionHandler_PLANET_ANIMATIONS :
              k = ActionHandler_PLANET_ANIMATIONS[p][1]
        THEN [d[k] EXCEPT !.rate = rate]
        ELSE d[k]]

\* _set_all_play_rates
_set_all_play_rates(d, rate) ==
    [k \in DOMAIN d |-> IF k \in HandlerKeys THEN [d[k] EXCEPT !.rate = rate] ELSE d[k]]

\* _adjust_all_play_rates
_adjust_all_play_rates(d, delta) ==
    [k \in DOMAIN d |->
        IF k \in HandlerKeys THEN [d[k] EXCEPT !.rate = @ + delta] ELSE d[k]]

\* _get_current_speed
_get_current_speed(d) == d["sunDay"].rate

\* str() of a natural number
RECURSIVE NatStr(_)
NatStr(n) ==
    IF n < 10 THEN SubSeq("0123456789", n + 1, n + 1)
    ELSE NatStr(n \div 10) \o SubSeq("0123456789", (n % 10) + 1, (n % 10) + 1)

\* str() of the float getPlayRate returns, for a whole-number rate: "2.0", "-1.0"
FloatStr(n) == (IF n < 0 THEN "-" \o NatStr(-n) ELSE NatStr(n)) \o ".0"

\* _update_speed_display
_update_speed_display(t, d) ==
    [t EXCEPT !.speedText = "Speed x " \o FloatStr(_get_current_speed(d))]

\* _toggle_interval
_toggle_interval(interval) == [interval EXCEPT !.playing = ~@]

\* _toggle_planet
_toggle_planet(d, anim_keys) ==
    [k \in DOMAIN d |-> IF k \in Range(anim_keys) THEN _toggle_interval(d[k]) ELSE d[k]]

\* the branch of _handle_all's loop toggling the planet whatever its Day
\* animation does
HandleAllPlanetAlways(d, anim_keys, playing) == _toggle_planet(d, anim_keys)

\* the branch of _handle_all's loop for one planet: toggled when its Day
\* animation is present and its play state equals `playing`
HandleAllPlanet(d, anim_keys, playing) ==
    IF Has(d, anim_keys[1]) /\ d[anim_keys[1]].playing = playing
    THEN _toggle_planet(d, anim_keys)
    ELSE d

\* the order in which PLANET_ANIMATIONS.items() yields the planets
HandlerPlanets == <<"sun", "mercury", "venus", "earth", "moon", "mars", "jupiter">>

\* the loop of _handle_all from the i-th planet on
RECURSIVE HandleAllFrom(_, _, _)
HandleAllFrom(d, i, playing) ==
    IF i > Len(HandlerPlanets) THEN d
    ELSE HandleAllFrom(
             HandleAllPlanet(d, ActionHandler_PLANET_ANIMATIONS[HandlerPlanets[i]],
                             playing),
             i + 1, playing)

\* one iteration of the texture loops: loadTexture(path) for `planet`, stored
\* in its slot and set on its model unless the load raises (path \in failing)
ApplyTexture(T, planet, path, failing) ==
    IF Has(T.cbAttTex, planet) /\ path \notin failing
    THEN [T EXCEPT !.cbAttTex = Put(@, planet \o "Tex", path),
                   !.applied = Put(@, T.cbAttTex[planet], path)]
    ELSE T

\* _load_texture_for_all from PLANET_NAMES[i] on
RECURSIVE LoadTextureFrom(_, _, _, _, _)
LoadTextureFrom(T, names, i, texture_name, failing) ==
    IF i > Len(names) THEN T
    ELSE LoadTextureFrom(
             ApplyTexture(T, names[i], MODELS_PATH \o texture_name \o ".jpg", failing),
             names, i + 1, texture_name, failing)

\* _load_texture_for_all
_load_texture_for_all(T, names, texture_name, failing) ==
    LoadTextureFrom(T, names, 1, texture_name, failing)

\* _restore_original_textures with no try around loadTexture: the first load
\* that raises ends the loop
RECURSIVE RestoreUntilFailure(_, _, _, _, _)
RestoreUntilFailure(T, names, defaults, i, failing) ==
    IF i > Len(names) THEN T
    ELSE IF Has(T.cbAttTex, names[i]) /\ (MODELS_PATH \o defaults[names[i]]) \in failing
    THEN T
    ELSE RestoreUntilFailure(
             ApplyTexture(T, names[i], MODELS_PATH \o defaults[names[i]], failing),
             names, defaults, i + 1, failing)

\* _restore_original_textures from the i-th item of DEFAULT_TEXTURES on (a dict
\* keeps its keys in the order of PLANET_NAMES)
RECURSIVE RestoreFrom(_, _, _, _, _)
RestoreFrom(T, names, defaults, i, failing) ==
    IF i > Len(names) THEN T
    ELSE RestoreFrom(
             ApplyTexture(T, names[i], MODELS_PATH \o defaults[names[i]], failing),
             names, defaults, i + 1, failing)

\* _restore_original_textures taking the default file name as a texture name, the
\* way _load_texture_for_all does (it appends ".jpg")
RestoreByTextureName(T, names, defaults, failing) ==
    RestoreFrom(T, names, [n \in DOMAIN defaults |-> defaults[n] \o ".jpg"], 1, failing)

\* _restore_original_textures
_restore_original_textures(T, names, defaults, failing) ==
    RestoreFrom(T, names, defaults, 1, failing)

(***************************************************************************)
(* Bounds of the model.                                                    *)
(***************************************************************************)
\* '+' and '-' are taken while the sun's rate stays within -MaxRate .. MaxRate
MaxRate == 3

\* 'z' is taken while no rate exceeds MaxRate + 100 * MaxUnlimit
MaxUnlimit == 1

\* the registries of SpecRegistry hold at most MaxBodies bodies
MaxBodies == 2

(***************************************************************************)
(* The state machine.                                                      *)
(***************************************************************************)
\* the handler state the history variables record
Snap ==
    [cbAttDic |-> cbAttDic, cbAttTex |-> cbAttTex, applied |-> applied,
     simRunning |-> simRunning, instructionsVisible |-> instructionsVisible,
     usingOriginalTextures |-> usingOriginalTextures, text |-> text]

\* the handler state before the ActionHandler exists
NoSnap ==
    [cbAttDic |-> EmptyDict, cbAttTex |-> EmptyDict, applied |-> EmptyDict,
     simRunning |-> FALSE, instructionsVisible |-> FALSE,
     usingOriginalTextures |-> FALSE, text |-> EmptyDict]

NoReport == ValueError("none", 0, "", "")

\* no texture generator has run
NoPixel == [generator |-> "none"]

\* the process before constants.py line 214 runs, with body list P
InitWith(P) ==
    /\ PLANETS = P
    /\ PLANET_NAMES = <<>>
    /\ DEFAULT_TEXTURES = EmptyDict
    /\ PLANET_ANIMATIONS = EmptyDict
    /\ pc = "import"
    /\ exitStatus = -1
    /\ report = NoReport
    /\ setupLog = <<>>
    /\ planets = NewLoader.planets
    /\ loadLog = NewLoader.loadLog
    /\ scene = NewLoader.scene
    /\ specialSun = NewLoader.specialSun
    /\ cbAttDic = EmptyDict
    /\ cbAttTex = NewLoader.cbAttTex
    /\ applied = NewLoader.applied
    /\ simRunning = FALSE
    /\ instructionsVisible = FALSE
    /\ usingOriginalTextures = FALSE
    /\ text = EmptyDict
    /\ lastKey = "none"
    /\ failed = {}
    /\ before = NoSnap
    /\ pixel = NoPixel

Init == InitWith(BuiltinPLANETS)

\* an uncaught exception: traceback on stderr, exit status 1
Crash(what, detail) ==
    /\ pc' = "crashed"
    /\ exitStatus' = 1
    /\ report' = ValueError(what, -1, "", detail)

\* constants.py lines 214-216: the three derived tables, computed at import
DeriveTables ==
    /\ pc = "import"
    /\ IF NamesRaise(PLANETS)
       THEN Crash("KeyError", "name") /\ UNCHANGED constVars
       ELSE IF TexturesRaise(PLANETS)
       THEN /\ Crash("KeyError", "texture")
            /\ PLANET_NAMES' = _generate_planet_names(PLANETS)
            /\ UNCHANGED <<PLANETS, DEFAULT_TEXTURES, PLANET_ANIMATIONS>>
       ELSE /\ PLANET_NAMES' = _generate_planet_names(PLANETS)
            /\ DEFAULT_TEXTURES' = _generate_default_textures(PLANETS)
            /\ PLANET_ANIMATIONS' = _generate_planet_animations(PLANETS)
            /\ pc' = "validate"
            /\ UNCHANGED <<PLANETS, exitStatus, report>>
    /\ UNCHANGED <<pixel, setupLog, loaderVars, handlerVars, historyVars>>

\* constants.py lines 283-288: validation on import, sys.exit(1) on ValueError
ImportValidate ==
    /\ pc = "validate"
    /\ LET r == validate_planet_configuration(PLANETS) IN
       IF r = Accepted
       THEN pc' = "ShowBase" /\ UNCHANGED <<exitStatus, report>>
       ELSE pc' = "exited" /\ exitStatus' = 1 /\ report' = r
    /\ UNCHANGED <<pixel, constVars, setupLog, loaderVars, handlerVars, historyVars>>

\* a set-up step of Main.__init__ that touches nothing the model follows
SetupStep(step, next) ==
    /\ pc = step
    /\ pc' = next
    /\ setupLog' = Append(setupLog, step)
    /\ UNCHANGED <<pixel, constVars, exitStatus, report, loaderVars, handlerVars, historyVars>>

\* Main.__init__: ShowBase()
ShowBaseInit == SetupStep("ShowBase", "CameraHandler")

\* Main.__init__: CameraHandler(self.base)
CameraHandlerInit == SetupStep("CameraHandler", "Universe")

\* Main.__init__: Universe(self.base), which sets up the lights
UniverseInit == SetupStep("Universe", "initSky")

\* Main.__init__: self.universe.initSky()
InitSky == SetupStep("initSky", "loadAllCelestialBodys")

\* Main.__init__: CelestialBody(...).loadAllCelestialBodys()
LoadAll ==
    /\ pc = "loadAllCelestialBodys"
    /\ LET L == loadAllCelestialBodys(NewLoader, PLANETS) IN
       /\ planets' = L.planets
       /\ loadLog' = L.loadLog
       /\ scene' = L.scene
       /\ specialSun' = L.specialSun
       /\ cbAttTex' = L.cbAttTex
       /\ applied' = L.applied
       /\ IF L.raised
          THEN Crash("AttributeError", "attachNewNode")
          ELSE pc' = "rotateAllCelestialBodys" /\ UNCHANGED <<exitStatus, report>>
    /\ setupLog' = Append(setupLog, "loadAllCelestialBodys")
    /\ UNCHANGED <<pixel, constVars, cbAttDic, handlerVars, historyVars>>

\* Main.__init__: self.celestial_body.rotateAllCelestialBodys()
RotateAll ==
    /\ pc = "rotateAllCelestialBodys"
    /\ cbAttDic' = rotateAllCelestialBodys(planets)
    /\ pc' = "ActionHandler"
    /\ setupLog' = Append(setupLog, "rotateAllCelestialBodys")
    /\ UNCHANGED <<pixel, constVars, exitStatus, report, planets, loadLog, scene, specialSun,
                   cbAttTex, applied, handlerVars, historyVars>>

\* Main.__init__: ActionHandler(base, cbAttDic, cbAttTex)
ActionHandlerInit ==
    /\ pc = "ActionHandler"
    /\ simRunning' = TRUE
    /\ instructionsVisible' = TRUE
    /\ usingOriginalTextures' = TRUE
    /\ pc' = "initAll"
    /\ setupLog' = Append(setupLog, "ActionHandler")
    /\ UNCHANGED <<pixel, constVars, exitStatus, report, loaderVars, text, historyVars>>

\* Main.__init__: self.action_handler.initAll()
InitAll ==
    /\ pc = "initAll"
    /\ text' = display_instructions
    /\ pc' = "SpecialClass"
    /\ setupLog' = Append(setupLog, "initAll")
    /\ UNCHANGED <<pixel, constVars, exitStatus, report, loaderVars, simRunning,
                   instructionsVisible, usingOriginalTextures, historyVars>>

\* Main.__init__: SpecialClass(base, specialSun), which re-anchors the sun
SpecialClassInit ==
    /\ pc = "SpecialClass"
    /\ IF specialSun = "None"
       THEN Crash("AttributeError", "setPos") /\ UNCHANGED scene
       ELSE /\ scene' = Put(scene, specialSun, Node("render", 0))
            /\ pc' = "run"
            /\ UNCHANGED <<exitStatus, report>>
    /\ setupLog' = Append(setupLog, "SpecialClass")
    /\ UNCHANGED <<pixel, constVars, planets, loadLog, specialSun, cbAttDic, cbAttTex,
                   applied, handlerVars, historyVars>>

\* the render loop entered once the ActionHandler has bound its keys, the
\* particle effects left out
RunBeforeSpecialClass ==
    /\ pc = "SpecialClass"
    /\ pc' = "running"
    /\ setupLog' = Append(setupLog, "run")
    /\ UNCHANGED <<pixel, constVars, exitStatus, report, loaderVars, handlerVars, historyVars>>

\* Main.run: base.run(), the render loop that dispatches the key events
Run == 
    /\ pc = "run"
    /\ pc' = "running"
    /\ setupLog' = Append(setupLog, "run")
    /\ UNCHANGED <<pixel, constVars, exitStatus, report, loaderVars, handlerVars, historyVars>>

NextStartup ==
    \/ DeriveTables
    \/ ImportValidate
    \/ ShowBaseInit
    \/ CameraHandlerInit
    \/ UniverseInit
    \/ InitSky
    \/ LoadAll
    \/ RotateAll
    \/ ActionHandlerInit
    \/ InitAll
    \/ SpecialClassInit
    \/ Run

(***************************************************************************)
(* The key handlers bound by _activate_key_bindings.  Each is an operator  *)
(* from the handler state s (the record Snap) to the state it leaves; the  *)
(* render loop dispatches one event at a time and runs its handler to      *)
(* completion.                                                             *)
(***************************************************************************)
\* _speed_up without its jump over 0: the rate is always raised by one
SpeedUpWithoutJump(s) ==
    LET d == _adjust_all_play_rates(s.cbAttDic, 1) IN
    [s EXCEPT !.cbAttDic = d, !.text = _update_speed_display(@, d)]

\* _speed_up
_speed_up(s) ==
    LET current_speed == _get_current_speed(s.cbAttDic)
        d == IF current_speed = -1
             THEN _set_all_play_rates(s.cbAttDic, 1)
             ELSE _adjust_all_play_rates(s.cbAttDic, 1)
    IN  [s EXCEPT !.cbAttDic = d, !.text = _update_speed_display(@, d)]

\* _slow_down without its jump over 0: the rate is always lowered by one
SlowDownWithoutJump(s) ==
    LET d == _adjust_all_play_rates(s.cbAttDic, -1) IN
    [s EXCEPT !.cbAttDic = d, !.text = _update_speed_display(@, d)]

\* _slow_down
_slow_down(s) ==
    LET current_speed == _get_current_speed(s.cbAttDic)
        d == IF current_speed = 1
             THEN _set_all_play_rates(s.cbAttDic, -1)
             ELSE _adjust_all_play_rates(s.cbAttDic, -1)
    IN  [s EXCEPT !.cbAttDic = d, !.text = _update_speed_display(@, d)]

\* _unlimit reaching the two animations of earth only
UnlimitEarthOnly(s) ==
    [s EXCEPT !.cbAttDic =
        [k \in DOMAIN @ |->
            IF k \in {"earthOrbit", "earthDay"}
            THEN [@[k] EXCEPT !.rate = @ + 100]
            ELSE @[k]]]

\* _unlimit that also sets the four animations playing
UnlimitAndResume(s) ==
    [s EXCEPT !.cbAttDic =
        [k \in DOMAIN @ |->
            IF k \in earth_moon_keys
            THEN [rate |-> @[k].rate + 100, playing |-> TRUE]
            ELSE @[k]]]

\* _unlimit
_unlimit(s) ==
    [s EXCEPT !.cbAttDic =
        [k \in DOMAIN @ |->
            IF k \in earth_moon_keys THEN [@[k] EXCEPT !.rate = @ + 100] ELSE @[k]]]

\* _reset_solar_system
_reset_solar_system(s) ==
    LET d == _set_all_play_rates(s.cbAttDic, 0) IN
    [s EXCEPT !.cbAttDic = d, !.text = _update_speed_display(@, d)]

\* _handle_earth toggling earth and not the moon
HandleEarthOnly(s) ==
    [s EXCEPT !.cbAttDic = _toggle_planet(@, <<"earthDay", "earthOrbit">>)]

\* _handle_earth
_handle_earth(s) ==
    [s EXCEPT !.cbAttDic =
        _toggle_planet(_toggle_planet(@, <<"earthDay", "earthOrbit">>),
                       <<"moonDay", "moonOrbit">>)]

\* _handle_all without the assignment to simRunning
HandleAllKeepingFlag(s) ==
    [s EXCEPT !.cbAttDic = HandleAllFrom(@, 1, s.simRunning)]

\* _handle_all
_handle_all(s) ==
    [s EXCEPT !.cbAttDic = HandleAllFrom(@, 1, s.simRunning),
              !.simRunning = ~@]

\* _toggle_instructions
_toggle_instructions(s) ==
    IF s.instructionsVisible
    THEN [s EXCEPT !.text = _hide_instructions(@), !.instructionsVisible = FALSE]
    ELSE [s EXCEPT !.text = _show_instructions(@), !.instructionsVisible = TRUE]

\* _toggle_texture without the assignments to usingOriginalTextures
ToggleTextureKeepingFlag(s, names, defaults, failing) ==
    IF s.usingOriginalTextures
    THEN _load_texture_for_all(s, names, "weiss", failing)
    ELSE _restore_original_textures(s, names, defaults, failing)

\* _toggle_texture
_toggle_texture(s, names, defaults, failing) ==
    IF s.usingOriginalTextures
    THEN [_load_texture_for_all(s, names, "weiss", failing)
            EXCEPT !.usingOriginalTextures = FALSE]
    ELSE [_restore_original_textures(s, names, defaults, failing)
            EXCEPT !.usingOriginalTextures = TRUE]

\* _load_easter_egg_texture without the assignment to usingOriginalTextures
LoadEasterEggKeepingFlag(s, names, texture_name, failing) ==
    _load_texture_for_all(s, names, texture_name, failing)

\* _load_easter_egg_texture
_load_easter_egg_texture(s, names, texture_name, failing) ==
    _load_texture_for_all([s EXCEPT !.usingOriginalTextures = FALSE],
                          names, texture_name, failing)

(***************************************************************************)
(* Key presses.                                                            *)
(***************************************************************************)
\* every path a texture handler can ask loader.loadTexture for
TexturePaths ==
    {MODELS_PATH \o n \o ".jpg" : n \in {"weiss"} \cup Range(EasterEggKeys)}
    \cup {MODELS_PATH \o DEFAULT_TEXTURES[n] : n \in DOMAIN DEFAULT_TEXTURES}

\* every load succeeds: the asset files the application ships with are present
AllLoadsSucceed == {{}}

\* the handler of `key` ran from the current state and left state r
KeyPressed(key, r, failing) ==
    /\ pc = "running"
    /\ cbAttDic' = r.cbAttDic
    /\ cbAttTex' = r.cbAttTex
    /\ applied' = r.applied
    /\ simRunning' = r.simRunning
    /\ instructionsVisible' = r.instructionsVisible
    /\ usingOriginalTextures' = r.usingOriginalTextures
    /\ text' = r.text
    /\ lastKey' = key
    /\ failed' = failing
    /\ before' = Snap
    /\ UNCHANGED <<pixel, constVars, pc, exitStatus, report, setupLog, planets, loadLog,
                   scene, specialSun>>

\* every rate of d lies within the bounds of the model
RatesInBounds(d) ==
    /\ d["sunDay"].rate \in -MaxRate .. MaxRate
    /\ \A k \in DOMAIN d : d[k].rate <= MaxRate + 100 * MaxUnlimit

PressPlus ==
    /\ pc = "running"
    /\ RatesInBounds(_speed_up(Snap).cbAttDic)
    /\ KeyPressed("+", _speed_up(Snap), {})

PressMinus ==
    /\ pc = "running"
    /\ RatesInBounds(_slow_down(Snap).cbAttDic)
    /\ KeyPressed("-", _slow_down(Snap), {})

PressZ ==
    /\ pc = "running"
    /\ RatesInBounds(_unlimit(Snap).cbAttDic)
    /\ KeyPressed("z", _unlimit(Snap), {})

PressR ==
    /\ pc = "running"
    /\ KeyPressed("r", _reset_solar_system(Snap), {})

PressE ==
    /\ pc = "running"
    /\ KeyPressed("e", _handle_earth(Snap), {})

PressSpace ==
    /\ pc = "running"
    /\ KeyPressed("space", _handle_all(Snap), {})

PressI ==
    /\ pc = "running"
    /\ KeyPressed("i", _toggle_instructions(Snap), {})

\* 't', the loads of the paths in `failing` raising, for a `failing` of LoadFailures
PressT(LoadFailures) ==
    \E failing \in LoadFailures :
        KeyPressed("t", _toggle_texture(Snap, PLANET_NAMES, DEFAULT_TEXTURES, failing),
                   failing)

\* 'b', 'x', 'y', 'c', 'v'
PressEasterEgg(LoadFailures) ==
    \E key \in DOMAIN EasterEggKeys, failing \in LoadFailures :
        KeyPressed(key, _load_easter_egg_texture(Snap, PLANET_NAMES, EasterEggKeys[key],
                                                 failing),
                   failing)

\* 'escape': sys.exit, after which the process and its objects are gone
PressEscape ==
    /\ pc = "running"
    /\ pc' = "exited"
    /\ exitStatus' = 0
    /\ planets' = NewLoader.planets
    /\ loadLog' = NewLoader.loadLog
    /\ scene' = NewLoader.scene
    /\ specialSun' = NewLoader.specialSun
    /\ cbAttDic' = NoSnap.cbAttDic
    /\ cbAttTex' = NoSnap.cbAttTex
    /\ applied' = NoSnap.applied
    /\ simRunning' = NoSnap.simRunning
    /\ instructionsVisible' = NoSnap.instructionsVisible
    /\ usingOriginalTextures' = NoSnap.usingOriginalTextures
    /\ text' = NoSnap.text
    /\ lastKey' = "escape"
    /\ failed' = {}
    /\ before' = NoSnap
    /\ UNCHANGED <<pixel, constVars, report, setupLog>>

NextKeys ==
    \/ PressPlus
    \/ PressMinus
    \/ PressZ
    \/ PressR
    \/ PressE
    \/ PressSpace
    \/ PressI
    \/ PressT(AllLoadsSucceed)
    \/ PressEasterEgg(AllLoadsSucceed)
    \/ PressEscape

Next == NextStartup \/ NextKeys

\* the application as shipped: the built-in PLANETS, start-up, then key presses
Spec == Init /\ [][Next]_vars

(***************************************************************************)
(* Registries other than the built-in one: the body lists a maintainer     *)
(* could write into PLANETS, drawn from a pool of bodies.                  *)
(***************************************************************************)
RegNames == {"sun", "earth"}

\* a body with every required field
Body(name, orbit_au, has_orbit) ==
    [name |-> name, orbit_au |-> orbit_au, size_scale |-> 10000,
     year_factor |-> 10000, day_factor |-> 10000, texture |-> name \o ".jpg",
     has_orbit |-> has_orbit]

\* the bodies that break no rule on their own, with and without a parent
PlainBodies ==
    LET top == {Body(n, au, ho) : n \in RegNames, au \in {0, 10000}, ho \in BOOLEAN}
    IN  top \cup {Put(b, "parent", par) : b \in top, par \in RegNames}

\* dict without the key k
Without(d, k) == [x \in DOMAIN d \ {k} |-> d[x]]

\* variations of one body: numbers out of range, other file names, a field left out
VariedBodies ==
    LET b == Body("earth", 10000, TRUE) IN
    {[b EXCEPT !["size_scale"] = v] : v \in {0, -10000}}
    \cup {[b EXCEPT !["orbit_au"] = -3800]}
    \cup {[b EXCEPT !["texture"] = t] :
            t \in {"earth.JPG", "earth.png", "earth.jpeg", "earth.txt", "earthjpg"}}
    \cup {Without(b, required_fields[k]) : k \in DOMAIN required_fields}

BodyPool == PlainBodies \cup VariedBodies

Registries == UNION {[1 .. n -> BodyPool] : n \in 0 .. MaxBodies}

InitRegistry == \E P \in Registries : InitWith(P)

\* start-up of the process for any registry of the pool
SpecRegistry == InitRegistry /\ [][NextStartup]_vars

(***************************************************************************)
(* Registries for the loader: planets, moons of several parents and        *)
(* distances, a moon of a moon, and bodies with extension fields.  The     *)
(* built-in registry is one of them.                                       *)
(***************************************************************************)
\* a moon: a body with a parent field
Moon(name, orbit_au, parent) == Put(Body(name, orbit_au, TRUE), "parent", parent)

\* a body with extension fields and one extra field that is no extension
WithCustom(b) ==
    Put(Put(Put(b, "custom_has_rings", TRUE), "custom_color", "blue"),
        "ring_custom_", "none")

LoaderPool ==
    {Body("sun", 0, FALSE), Body("earth", 10000, TRUE), Body("mars", 15200, TRUE)}
    \cup {Moon("moon", au, par) : au \in {1000, 2000}, par \in {"earth", "mars"}}
    \cup {Moon("moon", 1000, "sun"), Moon("moon", 0, "earth"),
          Moon("phobos", 1000, "moon")}
    \cup {WithCustom(Body("earth", 10000, TRUE)),
          WithCustom(Moon("moon", 1000, "earth")),
          WithCustom([Body("earth", 10000, TRUE) EXCEPT !["size_scale"] = 0])}

LoaderRegistries ==
    {BuiltinPLANETS} \cup UNION {[1 .. n -> LoaderPool] : n \in 0 .. MaxBodies + 1}

InitLoader == \E P \in LoaderRegistries : InitWith(P)

\* start-up of the process for the registries of the loader pool
SpecLoader == InitLoader /\ [][NextStartup]_vars

(***************************************************************************)
(* Registries extended the way the comment above PLANETS describes: a      *)
(* planet added to the list, and a planet with a moon of its own.          *)
(***************************************************************************)
ExtendedRegistries ==
    {<<Body("sun", 0, FALSE), Body("earth", 10000, TRUE), Body("saturn", 95400, TRUE)>>,
     <<Body("sun", 0, FALSE), Body("saturn", 95400, TRUE), Moon("titan", 2000, "saturn")>>}

InitExtended == \E P \in ExtendedRegistries : InitWith(P)

\* the application with an extended registry: start-up, then key presses
SpecExtended == InitExtended /\ [][Next]_vars

(***************************************************************************)
(* The application with texture files that fail to load while it runs.     *)
(***************************************************************************)
\* the sets of paths whose loadTexture raises during one key press
FailingLoads ==
    {{}, {MODELS_PATH \o "weiss.jpg"}, {MODELS_PATH \o "team.jpg"},
     {MODELS_PATH \o "earth_1k_tex.jpg"},
     {MODELS_PATH \o "sun_1k_tex.jpg", MODELS_PATH \o "mars_1k_tex.jpg",
      MODELS_PATH \o "borko.jpg"}}

NextKeysFailing ==
    \/ PressPlus
    \/ PressE
    \/ PressT(FailingLoads)
    \/ PressEasterEgg(FailingLoads)
    \/ PressEscape

\* the built-in registry, start-up, then key presses some of whose texture loads
\* fail
SpecFailures == Init /\ [][NextStartup \/ NextKeysFailing]_vars

(***************************************************************************)
(* ProceduralTextures.py: what the five generators compute for one pixel.  *)
(* Numbers are fixed point with three decimal places (Unit is 1.0); the    *)
(* noise values, and the sines of terms that hold noise, are inputs.       *)
(***************************************************************************)
Unit == 1000

\* a * b and a / b in fixed point
Mul(a, b) == (a * b) \div Unit

Div(a, b) == (a * Unit) \div b

Min(a, b) == IF a < b THEN a ELSE b

Max(a, b) == IF a > b THEN a ELSE b

Abs(a) == IF a < 0 THEN -a ELSE a

\* np.sqrt of a sum of two fixed-point squares (n is in units of Unit * Unit)
Sqrt(n) == CHOOSE k \in 0 .. 3 * Unit : k * k <= n /\ n < (k + 1) * (k + 1)

\* the channel as written with no clamping
Unclamped(x) == x

\* max(0, min(1, x)): the clamp before every set_xel
Clamp(x) == Max(0, Min(Unit, x))

\* (1 - mix) * a + mix * b, as each generator writes it channel by channel
Blend(a, b, mix) == Mul(a, Unit - mix) + Mul(b, mix)

RGB(r, g, b) == [r |-> r, g |-> g, b |-> b]

\* the (u, v) samples: the corners, the middle, and the centre of the storm of
\* the gas giants
Samples == {<<0, 0>>, <<500, 500>>, <<1000, 1000>>, <<700, 400>>}

\* np.sin(v * np.pi) at the sampled v
SinPi(v) == CASE v = 0 -> 0 [] v = 400 -> 951 [] v = 500 -> 1000 [] v = 1000 -> 0

\* generate_terrestrial_texture: one pixel, with the default colours
TerrestrialPixel(u, v, continents, terrain, detail) ==
    LET land_color == <<300, 500, 200>>
        ocean_color == <<100, 200, 500>>
        mountain_color == <<500, 400, 300>>
        ice_color == <<900, 900, 1000>>
        water_level == -100
        depth == (water_level - continents) * 3
        elevation == continents + Mul(terrain, 300) + Mul(detail, 100)
        pole_factor == Abs(v - 500) * 2
        ice_threshold == 700
        ice_mix == Div(pole_factor - ice_threshold, Unit - ice_threshold)
        mount_mix == Min((elevation - 500) * 2, Unit)
        rgb == IF continents < water_level
               THEN RGB(Mul(ocean_color[1], Unit - Mul(depth, 300)),
                        Mul(ocean_color[2], Unit - Mul(depth, 300)),
                        Mul(ocean_color[3], Unit - Mul(depth, 100)))
               ELSE IF pole_factor > ice_threshold
               THEN RGB(Blend(land_color[1], ice_color[1], ice_mix),
                        Blend(land_color[2], ice_color[2], ice_mix),
                        Blend(land_color[3], ice_color[3], ice_mix))
               ELSE IF elevation > 500
               THEN RGB(Blend(land_color[1], mountain_color[1], mount_mix),
                        Blend(land_color[2], mountain_color[2], mount_mix),
                        Blend(land_color[3], mountain_color[3], mount_mix))
               ELSE RGB(land_color[1] + Mul(terrain, 100),
                        land_color[2] + Mul(terrain, 150),
                        land_color[3] + Mul(terrain, 50))
        atmosphere_effect == Unit + Mul(SinPi(v), 100)
    IN  RGB(Clamp(Mul(rgb.r, atmosphere_effect)),
            Clamp(Mul(rgb.g, atmosphere_effect)),
            Clamp(Mul(rgb.b, atmosphere_effect)))

\* generate_star_texture: one pixel, with the default colour
StarPixel(u, v, turbulence, granule_noise, spots) ==
    LET base_color == <<1000, 900, 600>>
        granules == Mul(granule_noise, 300)
        sunspot == IF spots < -500 THEN Mul(-500 - spots, 1500) ELSE 0
        brightness == Max(300, Min(1200, 800 + Mul(turbulence, 150) + granules
                                             - Mul(sunspot, 400)))
    IN  RGB(Clamp(Mul(base_color[1], brightness)),
            Clamp(Mul(base_color[2], brightness)),
            Clamp(Mul(base_color[3], brightness)))

\* generate_gas_giant_texture: one pixel, with the default colours; band_sin is
\* np.sin(v * 20 + fbm * 2), swirl the fbm value sampled inside the storm
GasGiantPixel(u, v, band_sin, turbulence, swirl, detail_noise) ==
    LET primary_color == <<800, 600, 400>>
        secondary_color == <<900, 800, 600>>
        storm_color == <<900, 300, 200>>
        bands == Mul(band_sin, 500) + 500
        storm_center_x == 700
        storm_center_y == 400
        dist_to_storm == Sqrt((u - storm_center_x) * (u - storm_center_x)
                              + (v - storm_center_y) * (v - storm_center_y) * 4)
        storm_base == Mul(Max(0, Unit - dist_to_storm * 8), 700)
        storm_intensity == IF storm_base > 0
                           THEN Mul(storm_base, Mul(swirl, 500) + 500)
                           ELSE storm_base
        band_mix == Max(0, Min(Unit, bands + Mul(turbulence, 300)))
        banded == RGB(Blend(primary_color[1], secondary_color[1], band_mix),
                      Blend(primary_color[2], secondary_color[2], band_mix),
                      Blend(primary_color[3], secondary_color[3], band_mix))
        stormy == IF storm_intensity > 0
                  THEN RGB(Blend(banded.r, storm_color[1], storm_intensity),
                           Blend(banded.g, storm_color[2], storm_intensity),
                           Blend(banded.b, storm_color[3], storm_intensity))
                  ELSE banded
        detail == Mul(detail_noise, 100)
    IN  RGB(Clamp(stormy.r + detail), Clamp(stormy.g + detail), Clamp(stormy.b + detail))

\* the crater depth the loop of generate_rocky_texture adds up from layer i on
RECURSIVE Craters(_, _)
Craters(crater_patterns, i) ==
    IF i > Len(crater_patterns) THEN 0
    ELSE (IF crater_patterns[i] > 700 THEN (crater_patterns[i] - 700) * 3 ELSE 0)
         + Craters(crater_patterns, i + 1)

\* generate_rocky_texture: one pixel, with the default colours; crater_patterns
\* are the five values of noise.noise
RockyPixel(u, v, terrain, detail, crater_patterns) ==
    LET base_color == <<500, 400, 350>>
        crater_color == <<300, 250, 200>>
        craters == Craters(crater_patterns, 1)
        elevation == Mul(terrain, 600) + Mul(detail, 200) - Mul(craters, 400)
        color_mix == Max(0, Min(Unit, (elevation + Unit) \div 2))
    IN  RGB(Clamp(Blend(crater_color[1], base_color[1], color_mix) + Mul(detail, 100)),
            Clamp(Blend(crater_color[2], base_color[2], color_mix) + Mul(detail, 100)),
            Clamp(Blend(crater_color[3], base_color[3], color_mix) + Mul(detail, 100)))

\* generate_ice_giant_texture: one pixel, with the default colours; band_sin is
\* np.sin(v * 12 + fbm * 1.5)
IceGiantPixel(u, v, band_sin, clouds, feature_noise) ==
    LET base_color == <<300, 500, 700>>
        cloud_color == <<600, 750, 900>>
        bands == Mul(band_sin, 500) + 500
        features == Mul(feature_noise, 100)
        mix == Max(0, Min(Unit, Mul(bands, 400) + Mul(clouds, 400) + 200 + features))
        atmosphere_gradient == Unit + Mul(SinPi(v), 50)
    IN  RGB(Clamp(Mul(Blend(base_color[1], cloud_color[1], mix), atmosphere_gradient)),
            Clamp(Mul(Blend(base_color[2], cloud_color[2], mix), atmosphere_gradient)),
            Clamp(Mul(Blend(base_color[3], cloud_color[3], mix), atmosphere_gradient)))

\* the noise values handed to the generators: a grid over [-1, 1], with -2 and 2
\* beyond it
NoiseSteps == 2

NoiseValues ==
    {(k * Unit) \div NoiseSteps : k \in -NoiseSteps .. NoiseSteps} \cup {-2 * Unit, 2 * Unit}

\* the values of np.sin
SinValues == {(k * Unit) \div NoiseSteps : k \in -NoiseSteps .. NoiseSteps}

\* the values of noise.noise in the crater loop: at the threshold of a crater
\* and above it
CraterValues == {700, 2 * Unit}

\* set_xel(x, y, r, g, b): the pixel written, with what it was computed from
SetXel(generator, u, v, inputs, rgb) ==
    [generator |-> generator, u |-> u, v |-> v, inputs |-> inputs,
     r |-> rgb.r, g |-> rgb.g, b |-> rgb.b]

GenerateTerrestrial ==
    /\ pixel = NoPixel
    /\ \E s \in Samples, continents \in NoiseValues, terrain \in NoiseValues,
          detail \in NoiseValues :
           pixel' = SetXel("terrestrial", s[1], s[2], <<continents, terrain, detail>>,
                           TerrestrialPixel(s[1], s[2], continents, terrain, detail))
    /\ UNCHANGED processVars

GenerateGasGiant ==
    /\ pixel = NoPixel
    /\ \E s \in Samples, band_sin \in SinValues, turbulence \in NoiseValues,
          swirl \in NoiseValues, detail_noise \in NoiseValues :
           pixel' = SetXel("gas_giant", s[1], s[2],
                           <<band_sin, turbulence, swirl, detail_noise>>,
                           GasGiantPixel(s[1], s[2], band_sin, turbulence, swirl,
                                         detail_noise))
    /\ UNCHANGED processVars

GenerateRocky ==
    /\ pixel = NoPixel
    /\ \E s \in Samples, terrain \in NoiseValues, detail \in NoiseValues,
          crater_patterns \in [1 .. 5 -> CraterValues] :
           pixel' = SetXel("rocky", s[1], s[2], <<terrain, detail, crater_patterns>>,
                           RockyPixel(s[1], s[2], terrain, detail, crater_patterns))
    /\ UNCHANGED processVars

GenerateIceGiant ==
    /\ pixel = NoPixel
    /\ \E s \in Samples, band_sin \in SinValues, clouds \in NoiseValues,
          feature_noise \in NoiseValues :
           pixel' = SetXel("ice_giant", s[1], s[2], <<band_sin, clouds, feature_noise>>,
                           IceGiantPixel(s[1], s[2], band_sin, clouds, feature_noise))
    /\ UNCHANGED processVars

GenerateStar ==
    /\ pixel = NoPixel
    /\ \E s \in Samples, turbulence \in NoiseValues, granule_noise \in NoiseValues,
          spots \in NoiseValues :
           pixel' = SetXel("star", s[1], s[2], <<turbulence, granule_noise, spots>>,
                           StarPixel(s[1], s[2], turbulence, granule_noise, spots))
    /\ UNCHANGED processVars

\* the loops over y and x move on to the next pixel, not written yet
NextPixel ==
    /\ pixel # NoPixel
    /\ pixel' = NoPixel
    /\ UNCHANGED processVars

NextTextures ==
    \/ GenerateTerrestrial
    \/ GenerateGasGiant
    \/ GenerateRocky
    \/ GenerateIceGiant
    \/ GenerateStar
    \/ NextPixel

\* the texture generators run pixel after pixel, in a process of their own
SpecTextures == Init /\ [][NextTextures]_vars

(***************************************************************************)
(* Properties of the key handlers, checked under Spec.                     *)
(***************************************************************************)
Rate(d, k) == d[k].rate

AllRates(d, r) == \A k \in DOMAIN d : Rate(d, k) = r

\* C1: '+' at sun rate -1 sets every animation's rate to 1 and otherwise adds 1
\* to every rate; '-' at sun rate 1 sets every rate to -1 and otherwise
\* subtracts 1 from every rate.  So from 1 one '-' gives -1 (not 0), from -1 one
\* '+' gives 1, and from 3 one '-' gives 2.
C1_SpeedKeys ==
    /\ lastKey = "+" =>
          IF Rate(before.cbAttDic, "sunDay") = -1
          THEN AllRates(cbAttDic, 1)
          ELSE \A k \in DOMAIN cbAttDic :
                  Rate(cbAttDic, k) = Rate(before.cbAttDic, k) + 1
    /\ lastKey = "-" =>
          IF Rate(before.cbAttDic, "sunDay") = 1
          THEN AllRates(cbAttDic, -1)
          ELSE \A k \in DOMAIN cbAttDic :
                  Rate(cbAttDic, k) = Rate(before.cbAttDic, k) - 1
    /\ lastKey \in {"+", "-"} =>
          /\ DOMAIN cbAttDic = DOMAIN before.cbAttDic
          /\ HandlerKeys \subseteq DOMAIN cbAttDic
    /\ lastKey = "-" /\ Rate(before.cbAttDic, "sunDay") = 1 =>
          Rate(cbAttDic, "sunDay") = -1
    /\ lastKey = "+" /\ Rate(before.cbAttDic, "sunDay") = -1 =>
          Rate(cbAttDic, "sunDay") = 1
    /\ lastKey = "-" /\ Rate(before.cbAttDic, "sunDay") = 3 =>
          Rate(cbAttDic, "sunDay") = 2

\* '-' was pressed at sun rate 1 while earth and moon ran 100 faster, and every
\* rate jumped to -1
C1_Witness ==
    /\ lastKey = "-"
    /\ Rate(before.cbAttDic, "sunDay") = 1
    /\ Rate(before.cbAttDic, "earthOrbit") = 101
    /\ AllRates(cbAttDic, -1)

\* C2: after 'r' every animation handle of the shared map has play rate 0,
\* whatever the rates were before.
C2_ResetStopsAll ==
    lastKey = "r" => DOMAIN cbAttDic # {} /\ AllRates(cbAttDic, 0)

\* 'r' was pressed while the sun ran backwards and earth and moon ran at another
\* rate than the sun
C2_Witness ==
    /\ lastKey = "r"
    /\ Rate(before.cbAttDic, "sunDay") < 0
    /\ Rate(before.cbAttDic, "moonOrbit") # Rate(before.cbAttDic, "sunDay")
    /\ AllRates(cbAttDic, 0)

\* C3: 'z' adds exactly 100 to the play rate of earthDay, earthOrbit, moonDay and
\* moonOrbit and leaves every other rate, every play/pause state and the three
\* flags as they were.
C3_UnlimitFrame ==
    lastKey = "z" =>
        /\ earth_moon_keys \subseteq DOMAIN cbAttDic
        /\ DOMAIN cbAttDic = DOMAIN before.cbAttDic
        /\ \A k \in earth_moon_keys :
              Rate(cbAttDic, k) = Rate(before.cbAttDic, k) + 100
        /\ \A k \in DOMAIN cbAttDic \ earth_moon_keys :
              Rate(cbAttDic, k) = Rate(before.cbAttDic, k)
        /\ \A k \in DOMAIN cbAttDic : cbAttDic[k].playing = before.cbAttDic[k].playing
        /\ simRunning = before.simRunning
        /\ instructionsVisible = before.instructionsVisible
        /\ usingOriginalTextures = before.usingOriginalTextures

\* 'z' was pressed with earth and moon paused, the simulation paused, the
\* instructions hidden and another rate than 1
C3_Witness ==
    /\ lastKey = "z"
    /\ Rate(before.cbAttDic, "sunDay") = -2
    /\ Rate(cbAttDic, "moonDay") = 98
    /\ ~cbAttDic["earthDay"].playing
    /\ ~simRunning
    /\ ~instructionsVisible
    /\ ~usingOriginalTextures

\* the texture slot of every loaded body holds the texture of its own default
\* file, and so does its model
DefaultTexturesIn(s) ==
    \A n \in DOMAIN planets :
        /\ s.cbAttTex[n \o "Tex"] = MODELS_PATH \o DEFAULT_TEXTURES[n]
        /\ s.applied[s.cbAttTex[n]] = MODELS_PATH \o DEFAULT_TEXTURES[n]

\* C4: from a state that uses the original textures, 't' pressed twice with every
\* load succeeding leaves each loaded body's slot holding the texture of its own
\* default file of DEFAULT_TEXTURES, and usingOriginalTextures true.  (The
\* first press is the one the history records, the second is the handler
\* applied to the state it left.)
C4_TextureRoundTrip ==
    lastKey = "t" /\ before.usingOriginalTextures /\ failed = {} =>
        LET again == _toggle_texture(Snap, PLANET_NAMES, DEFAULT_TEXTURES, {}) IN
        /\ DOMAIN planets # {}
        /\ ~usingOriginalTextures
        /\ again.usingOriginalTextures
        /\ DefaultTexturesIn(again)

\* the second 't' was pressed: it found every slot holding weiss and left the
\* defaults
C4_Witness ==
    /\ lastKey = "t"
    /\ failed = {}
    /\ \A n \in DOMAIN planets :
          before.cbAttTex[n \o "Tex"] = MODELS_PATH \o "weiss.jpg"
    /\ ~before.usingOriginalTextures
    /\ usingOriginalTextures
    /\ DefaultTexturesIn(Snap)
    /\ cbAttTex["earthTex"] = "../../models/earth_1k_tex.jpg"

\* C5: 'i' pressed twice returns the text of every overlay line and
\* instructionsVisible to what they were before the first press; from the
\* initial overlay that is the full text _display_instructions created.  (The
\* first press is the one the history records, the second is the handler
\* applied to the state it left.)
C5_InstructionRoundTrip ==
    lastKey = "i" =>
        LET again == _toggle_instructions(Snap) IN
        /\ instructionsVisible # before.instructionsVisible
        /\ text # before.text
        /\ again.text = before.text
        /\ again.instructionsVisible = before.instructionsVisible
        /\ before.text = display_instructions => again.text = display_instructions

\* the second 'i' was pressed: it found the lines hidden and left them shown
C5_Witness ==
    /\ lastKey = "i"
    /\ before.text["speedUpText"] = ""
    /\ ~before.instructionsVisible
    /\ instructionsVisible
    /\ text = display_instructions

(***************************************************************************)
(* Properties of the registry, checked under SpecRegistry.  The rules of   *)
(* a body list are written here on their own, apart from the validation    *)
(* that is measured against them.                                          *)
(***************************************************************************)
Bodies(P) == 1 .. Len(P)

\* every body has each of the seven required fields
Complete(P) ==
    \A i \in Bodies(P) : \A k \in DOMAIN required_fields : Has(P[i], required_fields[k])

SameName(P) ==
    \E i, j \in Bodies(P) :
        i < j /\ Has(P[i], "name") /\ Has(P[j], "name") /\ P[i]["name"] = P[j]["name"]

NoSize(P) == \E i \in Bodies(P) : Has(P[i], "size_scale") /\ P[i]["size_scale"] <= 0

NegativeOrbit(P) == \E i \in Bodies(P) : Has(P[i], "orbit_au") /\ P[i]["orbit_au"] < 0

\* some texture filename does not end, as written, in an image extension
NoExtensionAsWritten(P) ==
    \E i \in Bodies(P) :
        /\ Has(P[i], "texture")
        /\ ~\E e \in {".jpg", ".png", ".jpeg"} : EndsWith(P[i]["texture"], e)

\* some texture filename does not end in an image extension in any letter case
NoExtension(P) ==
    \E i \in Bodies(P) :
        /\ Has(P[i], "texture")
        /\ ~\E e \in {".jpg", ".png", ".jpeg"} : EndsWith(Lower(P[i]["texture"]), e)

\* every parent names a body at a strictly earlier index
ParentsEarlier(P) ==
    \A i \in Bodies(P) :
        Has(P[i], "parent") =>
            \E j \in 1 .. i - 1 : Has(P[j], "name") /\ P[j]["name"] = P[i]["parent"]

\* the derived tables exist: the import got past constants.py line 216
TablesDerived == pc # "import" /\ report.kind # "KeyError"

\* the import of constants.py is over, one way or the other
Imported == pc \notin {"import", "validate"}

\* a scene-construction step of Main.__init__ has run
SceneConstruction == setupLog # <<>> \/ planets # EmptyDict \/ loadLog # <<>>

\* the process ended during the import with status 1 and nothing constructed
EndedAtImport == pc \in {"exited", "crashed"} /\ exitStatus = 1 /\ ~SceneConstruction

\* C6: for every body of a registry (complete bodies, names unique) the derived
\* animation keys contain "<name>Day", and contain "<name>Orbit" exactly when
\* has_orbit is true and orbit_au > 0; no other key; the table has exactly one
\* entry per body.
C6_DerivedAnimationKeys ==
    TablesDerived /\ Complete(PLANETS) /\ ~SameName(PLANETS) =>
        /\ Cardinality(DOMAIN PLANET_ANIMATIONS) = Len(PLANETS)
        /\ \A i \in Bodies(PLANETS) :
              LET planet == PLANETS[i]
                  name == planet["name"]
                  keys == Range(PLANET_ANIMATIONS[name])
              IN  /\ name \in DOMAIN PLANET_ANIMATIONS
                  /\ (name \o "Day") \in keys
                  /\ (name \o "Orbit") \in keys
                        <=> (planet["has_orbit"] /\ planet["orbit_au"] > 0)
                  /\ keys \subseteq {name \o "Day", name \o "Orbit"}

\* tables of a two-body registry: the sun with has_orbit and no distance has
\* only sunDay, earth has earthDay and earthOrbit
C6_Witness ==
    /\ TablesDerived
    /\ Len(PLANETS) = 2
    /\ PLANETS[1] = Body("sun", 0, TRUE)
    /\ PLANETS[2] = Body("earth", 10000, TRUE)
    /\ PLANET_ANIMATIONS["sun"] = <<"sunDay">>
    /\ PLANET_ANIMATIONS["earth"] = <<"earthDay", "earthOrbit">>

\* C7: for every registry the validation accepts, the derived name list has
\* exactly one entry per body (the body's name, each once), the default-texture
\* map has as many entries as there are bodies, and each entry is the body's
\* configured texture filename.
C7_DerivedNamesAndTextures ==
    Imported /\ validate_planet_configuration(PLANETS) = Accepted =>
        /\ Len(PLANET_NAMES) = Len(PLANETS)
        /\ Cardinality(Range(PLANET_NAMES)) = Len(PLANETS)
        /\ Cardinality(DOMAIN DEFAULT_TEXTURES) = Len(PLANETS)
        /\ \A i \in Bodies(PLANETS) :
              /\ PLANET_NAMES[i] = PLANETS[i]["name"]
              /\ PLANETS[i]["name"] \in DOMAIN DEFAULT_TEXTURES
              /\ DEFAULT_TEXTURES[PLANETS[i]["name"]] = PLANETS[i]["texture"]

\* tables of an accepted registry of two bodies with textures of their own
C7_Witness ==
    /\ pc = "ShowBase"
    /\ Len(PLANETS) = 2
    /\ PLANET_NAMES = <<"sun", "earth">>
    /\ PLANETS[2]["texture"] = "earth.png"
    /\ DEFAULT_TEXTURES["sun"] = "sun.jpg"
    /\ DEFAULT_TEXTURES["earth"] = "earth.png"

\* what a rejection says is true of the list: the body it names is in the list
\* and has the fault it names
Descriptive(P, r) ==
    /\ r.index \in 0 .. Len(P) - 1
    /\ LET planet == P[r.index + 1] IN
       CASE r.kind = "missing required field" ->
                r.detail \in Range(required_fields) /\ ~Has(planet, r.detail)
         [] r.kind = "duplicate name" ->
                r.name = planet["name"]
                /\ \E j \in 1 .. r.index : P[j]["name"] = r.name
         [] r.kind = "parent not defined" ->
                r.name = planet["name"]
                /\ ~\E j \in 1 .. r.index : P[j]["name"] = planet["parent"]
         [] r.kind = "invalid size_scale" ->
                r.name = planet["name"] /\ planet["size_scale"] <= 0
         [] r.kind = "invalid orbit_au" ->
                r.name = planet["name"] /\ planet["orbit_au"] < 0
         [] r.kind = "texture without image extension" ->
                r.name = planet["name"]
                /\ ~\E e \in {".jpg", ".png", ".jpeg"} :
                       EndsWith(Lower(planet["texture"]), e)
         [] OTHER -> FALSE

\* C8 as stated: a list with two bodies of one name, a size_scale <= 0, an
\* orbit_au < 0 or a texture filename that does not end in .jpg, .png or .jpeg
\* is rejected.
C8_AsStated ==
    (SameName(PLANETS) \/ NoSize(PLANETS) \/ NegativeOrbit(PLANETS)
        \/ NoExtensionAsWritten(PLANETS))
    => validate_planet_configuration(PLANETS) # Accepted

\* C8: validation rejects, with an error that names the body and its fault, any
\* list with two bodies of one name, a size_scale <= 0, an orbit_au < 0 or a
\* texture filename that, in lower case, does not end in .jpg, .png or .jpeg
\* (each alone is enough); the process then ends with status 1 and nothing
\* constructed; a list of complete bodies with none of these faults and every
\* parent at an earlier index is accepted.
C8_ValidationRejects ==
    LET r == validate_planet_configuration(PLANETS) IN
    /\ (SameName(PLANETS) \/ NoSize(PLANETS) \/ NegativeOrbit(PLANETS)
           \/ NoExtension(PLANETS))
       => r # Accepted
    /\ r # Accepted => Descriptive(PLANETS, r)
    /\ r # Accepted /\ Imported => EndedAtImport
    /\ pc = "exited" => report = r
    /\ (/\ Complete(PLANETS)
        /\ ~SameName(PLANETS)
        /\ ~NoSize(PLANETS)
        /\ ~NegativeOrbit(PLANETS)
        /\ ~NoExtension(PLANETS)
        /\ ParentsEarlier(PLANETS))
       => r = Accepted /\ (Imported => pc # "exited")

\* the second body of a list has a texture file without an image extension and
\* nothing else wrong, and the import ended on that
C8_Witness ==
    /\ pc = "exited"
    /\ exitStatus = 1
    /\ Len(PLANETS) = 2
    /\ PLANETS[1] = Body("sun", 0, FALSE)
    /\ PLANETS[2]["texture"] = "earth.txt"
    /\ report = ValueError("texture without image extension", 1, "earth", "texture")

\* C9 as stated: a list in which some parent does not name a body at a strictly
\* earlier index (a later body, an undefined name, the body itself) is rejected;
\* in an accepted registry every moon's parent exists at a smaller index.
C9_ParentOrdering ==
    /\ ~ParentsEarlier(PLANETS) => validate_planet_configuration(PLANETS) # Accepted
    /\ Imported /\ pc # "exited" /\ pc # "crashed" => ParentsEarlier(PLANETS)

\* a body that names itself as its parent got through the validation
C9_Witness ==
    /\ pc = "ShowBase"
    /\ Len(PLANETS) = 1
    /\ PLANETS[1]["name"] = "earth"
    /\ Has(PLANETS[1], "parent")
    /\ PLANETS[1]["parent"] = "earth"

\* one of the rules of a body list is broken
RuleBroken(P) ==
    \/ ~Complete(P)
    \/ SameName(P)
    \/ NoSize(P)
    \/ NegativeOrbit(P)
    \/ NoExtension(P)
    \/ ~ParentsEarlier(P)

\* C10 as stated: for a registry that breaks a rule, a missing required field
\* included, start-up ends in the validation step with a report of the body
\* and field at fault, status non-zero, and no scene-construction step run.
C10_FatalConfigurationError ==
    Imported /\ RuleBroken(PLANETS) =>
        /\ pc = "exited"
        /\ exitStatus # 0
        /\ report = validate_planet_configuration(PLANETS)
        /\ Descriptive(PLANETS, report)
        /\ ~SceneConstruction

\* a body without a texture field ended the import with a KeyError before the
\* validation ran
C10_Witness ==
    /\ pc = "crashed"
    /\ report.kind = "KeyError"
    /\ report.detail = "texture"
    /\ Len(PLANETS) = 1
    /\ ~Has(PLANETS[1], "texture")
    /\ validate_planet_configuration(PLANETS)
          = ValueError("missing required field", 0, "", "texture")

(***************************************************************************)
(* Properties of the loader, checked under SpecLoader.                     *)
(***************************************************************************)
\* loadAllCelestialBodys has run (to its end or to an exception)
LoadRan == loadLog # <<>> \/ pc \in {"rotateAllCelestialBodys", "ActionHandler",
                                     "initAll", "SpecialClass", "run", "running"}

HasParent(planet_config) == Has(planet_config, "parent")

NoParent(planet_config) == ~Has(planet_config, "parent")

NameOf(planet_config) == planet_config["name"]

\* the names of a list of bodies, in order
RECURSIVE NamesIn(_)
NamesIn(P) == IF P = <<>> THEN <<>> ELSE <<NameOf(Head(P))>> \o NamesIn(Tail(P))

\* the body of the registry with name n is a moon
IsMoonName(n) == \E k \in Bodies(PLANETS) : NameOf(PLANETS[k]) = n /\ HasParent(PLANETS[k])

\* the bodies without a parent loaded before the first moon
LoadedBeforeMoons ==
    {i \in 1 .. Len(loadLog) :
        ~IsMoonName(loadLog[i]) /\ \A j \in 1 .. i : ~IsMoonName(loadLog[j])}

\* C11 as stated: with the built-in table the first pass loads five non-moon
\* bodies and the second pass then loads the moon.
C11_AsStated ==
    PLANETS = BuiltinPLANETS /\ LoadRan =>
        /\ Cardinality(LoadedBeforeMoons) = 5
        /\ loadLog[Len(loadLog)] = "moon"

\* C11: loadAllCelestialBodys loads every body without a parent field, in list
\* order, before it loads any body with a parent field; with the built-in table
\* the first pass loads the six bodies sun, mercury, venus, earth, mars and
\* jupiter and the second pass then loads the moon.
C11_TwoPassLoadOrder ==
    LoadRan =>
        /\ \A i, j \in 1 .. Len(loadLog) :
              IsMoonName(loadLog[i]) /\ ~IsMoonName(loadLog[j]) => j < i
        /\ DOMAIN planets \subseteq Range(loadLog)
        /\ pc # "crashed" =>
              loadLog = NamesIn(SelectSeq(PLANETS, NoParent))
                            \o NamesIn(SelectSeq(PLANETS, HasParent))
        /\ PLANETS = BuiltinPLANETS =>
              /\ loadLog = <<"sun", "mercury", "venus", "earth", "mars", "jupiter",
                             "moon">>
              /\ Cardinality(LoadedBeforeMoons) = 6
              /\ DOMAIN planets = Range(loadLog)

\* a registry that lists a moon between its parent and another planet: the
\* planet after the moon was loaded before the moon
C11_Witness ==
    /\ pc = "rotateAllCelestialBodys"
    /\ Len(PLANETS) = 3
    /\ NamesIn(PLANETS) = <<"earth", "moon", "sun">>
    /\ loadLog = <<"earth", "sun", "moon">>
    /\ DOMAIN planets = {"earth", "sun", "moon"}

\* node n of scene sc lies below node a
RECURSIVE IsDescendant(_, _, _)
IsDescendant(sc, n, a) ==
    /\ Has(sc, n)
    /\ sc[n].parent # "None"
    /\ (sc[n].parent = a \/ IsDescendant(sc, sc[n].parent, a))

\* the loaded moons that have an orbit root
OrbitingMoons ==
    {n \in DOMAIN planets :
        HasParent(planets[n].config) /\ planets[n].orbit_root # "None"}

\* C12: after loading, the orbit-root node of every loaded moon (the node its
\* Orbit animation rotates) is a descendant of its parent's orbit-root node and
\* no direct child of the scene root; with the built-in table the moon's
\* orbit-root is a descendant of earth's orbit-root.
C12_MoonHierarchy ==
    LoadRan =>
        /\ \A n \in OrbitingMoons :
              LET moon == planets[n]
                  parent == planets[moon.config["parent"]]
              IN  /\ parent.orbit_root # "None"
                  /\ IsDescendant(scene, moon.orbit_root, parent.orbit_root)
                  /\ IsDescendant(scene, moon.orbit_root, "render")
                  /\ scene[moon.orbit_root].parent # "render"
                  /\ scene[moon.model].parent = moon.orbit_root
        /\ \A n \in DOMAIN planets :
              cbAttDic # EmptyDict =>
                 (Has(cbAttDic, n \o "Orbit") <=> planets[n].orbit_root # "None")
        /\ PLANETS = BuiltinPLANETS =>
              /\ OrbitingMoons = {"moon"}
              /\ IsDescendant(scene, planets["moon"].orbit_root,
                              planets["earth"].orbit_root)

\* the built-in registry loaded and animated: the moon's orbit root hangs below
\* the node _load_moon made under earth's orbit root
C12_Witness ==
    /\ PLANETS = BuiltinPLANETS
    /\ Has(cbAttDic, "moonOrbit")
    /\ planets["moon"].orbit_root = "orbit_root_moon"
    /\ scene["orbit_root_moon"].parent = "moon_orbit_root_moon"
    /\ scene["moon_orbit_root_moon"].parent = "orbit_root_earth"
    /\ scene["orbit_root_earth"].parent = "render"

(***************************************************************************)
(* More properties of the key handlers, checked under Spec.                *)
(***************************************************************************)
\* the animation keys of body p, and its Day key
KeysOf(p) == Range(ActionHandler_PLANET_ANIMATIONS[p])

DayKey(p) == p \o "Day"

\* C13: space pressed while simRunning is true pauses the Day and Orbit
\* animations of exactly the bodies whose Day animation was playing and leaves the
\* others as they were; pressed while simRunning is false it resumes exactly the
\* bodies whose Day animation was not playing; either way simRunning is flipped
\* and no play rate changes.
C13_GlobalPause ==
    lastKey = "space" =>
        /\ simRunning = ~before.simRunning
        /\ DOMAIN cbAttDic = DOMAIN before.cbAttDic
        /\ \A k \in DOMAIN cbAttDic : Rate(cbAttDic, k) = Rate(before.cbAttDic, k)
        /\ \A p \in DOMAIN ActionHandler_PLANET_ANIMATIONS :
              /\ DayKey(p) \in KeysOf(p)
              /\ KeysOf(p) \subseteq DOMAIN cbAttDic
              /\ IF before.cbAttDic[DayKey(p)].playing = before.simRunning
                 THEN \A k \in KeysOf(p) : cbAttDic[k].playing = ~before.simRunning
                 ELSE \A k \in KeysOf(p) : cbAttDic[k] = before.cbAttDic[k]
        /\ cbAttTex = before.cbAttTex
        /\ text = before.text
        /\ instructionsVisible = before.instructionsVisible
        /\ usingOriginalTextures = before.usingOriginalTextures

\* space was pressed, the simulation running, with earth and moon already paused
\* by 'e': they stayed paused and the other bodies were paused
C13_Witness ==
    /\ lastKey = "space"
    /\ before.simRunning
    /\ ~before.cbAttDic["earthDay"].playing
    /\ before.cbAttDic["marsOrbit"].playing
    /\ ~simRunning
    /\ \A k \in DOMAIN cbAttDic : ~cbAttDic[k].playing

\* the eight lines _display_instructions creates
InstructionLines == DOMAIN display_instructions

\* the lines that tell of a key other than 'i'
KeyHintLines ==
    {"speedUpText", "slowDownText", "toggleTextureText", "resetSolarSystemText",
     "easterEggText", "spaceKeyEventText"}

AlternateTexture ==
    [b |-> "../../models/borko.jpg", x |-> "../../models/team.jpg",
     y |-> "../../models/marm.jpg", c |-> "../../models/brezina.jpg",
     v |-> "../../models/testbild.jpg"]

\* C15: each of the keys b, x, y, c, v, pressed in any state with the texture
\* loading, sets the texture slot of every loaded body to the one alternate
\* texture of the key (borko, team, marm, brezina, testbild) and sets
\* usingOriginalTextures to false, touching no animation; the next 't' then
\* restores every body's default texture of the registry and applies no weiss.
C15_EasterEggTextures ==
    lastKey \in {"b", "x", "y", "c", "v"} /\ failed = {} =>
        LET next == _toggle_texture(Snap, PLANET_NAMES, DEFAULT_TEXTURES, {}) IN
        /\ DOMAIN planets # {}
        /\ \A n \in DOMAIN planets :
              /\ cbAttTex[n \o "Tex"] = AlternateTexture[lastKey]
              /\ applied[cbAttTex[n]] = AlternateTexture[lastKey]
        /\ ~usingOriginalTextures
        /\ cbAttDic = before.cbAttDic
        /\ simRunning = before.simRunning
        /\ next.usingOriginalTextures
        /\ DefaultTexturesIn(next)
        /\ \A n \in DOMAIN planets : next.cbAttTex[n \o "Tex"] # "../../models/weiss.jpg"

\* 'v' was pressed while the original textures were in use (so that 't' alone
\* would have applied weiss): every slot holds testbild
C15_Witness ==
    /\ lastKey = "v"
    /\ before.usingOriginalTextures
    /\ before.cbAttTex["earthTex"] = "../../models/earth_1k_tex.jpg"
    /\ ~usingOriginalTextures
    /\ \A n \in DOMAIN planets : cbAttTex[n \o "Tex"] = "../../models/testbild.jpg"
    /\ Cardinality(DOMAIN planets) = 7

\* the one-time set-up steps of the entry point, in the order of the claim:
\* engine, camera, lights, skybox, load pass, animation pass, ActionHandler and
\* its key bindings, particle effects, render loop
StartupOrder ==
    <<"ShowBase", "CameraHandler", "Universe", "initSky", "loadAllCelestialBodys",
      "rotateAllCelestialBodys", "ActionHandler", "initAll", "SpecialClass", "run">>

IsPrefix(a, b) == Len(a) <= Len(b) /\ a = SubSeq(b, 1, Len(a))

\* every animation handle and every texture slot the handlers use is there
HandlesPresent ==
    /\ "sunDay" \in DOMAIN cbAttDic
    /\ HandlerKeys \subseteq DOMAIN cbAttDic
    /\ \A i \in Bodies(PLANETS) :
          /\ Range(PLANET_ANIMATIONS[NameOf(PLANETS[i])]) \subseteq DOMAIN cbAttDic
          /\ (NameOf(PLANETS[i]) \o "Tex") \in DOMAIN cbAttTex
          /\ NameOf(PLANETS[i]) \in DOMAIN cbAttTex

\* a key handler runs in this step
HandlerFires == lastKey' # lastKey \/ before' # before \/ handlerVars' # handlerVars

\* C16: the entry point runs each one-time set-up once and in the order engine,
\* camera, lights, skybox, load pass, animation pass, ActionHandler key binding,
\* particle effects, render loop; no key handler fires before all of them have
\* run, every animation handle (sunDay included) is in the shared map and every
\* body has its texture slot.
C16_StartupOrdering ==
    /\ [](/\ IsPrefix(setupLog, StartupOrder)
          /\ Cardinality(Range(StartupOrder)) = Len(StartupOrder)
          /\ pc = "running" => setupLog = StartupOrder /\ HandlesPresent
          /\ lastKey # "none" => setupLog = StartupOrder)
    /\ [][(HandlerFires /\ pc # "initAll" /\ pc # "ActionHandler")
             => (pc = "running" /\ setupLog = StartupOrder /\ HandlesPresent)]_vars

\* a first key was handled, the ten set-up steps done, each once
C16_Witness ==
    /\ pc = "running"
    /\ lastKey = "e"
    /\ before = [Snap EXCEPT !.cbAttDic = rotateAllCelestialBodys(planets)]
    /\ ~cbAttDic["moonOrbit"].playing
    /\ Len(setupLog) = 10
    /\ setupLog[1] = "ShowBase"
    /\ setupLog[6] = "rotateAllCelestialBodys"
    /\ setupLog[10] = "run"

(***************************************************************************)
(* More properties of the loader, checked under SpecLoader.                *)
(***************************************************************************)
\* key is an extension field: its first seven characters are "custom_"
IsCustomKey(key) == Len(key) >= 7 /\ SubSeq(key, 1, 7) = "custom_"

\* the body without its extension fields, and the registry without any
WithoutCustom(planet_config) ==
    [key \in {k \in DOMAIN planet_config : ~IsCustomKey(k)} |-> planet_config[key]]

RegistryWithoutCustom(P) == [i \in Bodies(P) |-> WithoutCustom(P[i])]

\* C17: the extension fields of a registry change neither what the validation
\* says of it nor any derived table (both are what they are for the registry
\* without them); each custom_* field of a loaded body is an attribute of its
\* Planet object under the same key with the same value, and no other field is.
C17_ExtensionFields ==
    LET Q == RegistryWithoutCustom(PLANETS) IN
    /\ validate_planet_configuration(PLANETS) = validate_planet_configuration(Q)
    /\ TablesDerived =>
          /\ PLANET_NAMES = _generate_planet_names(Q)
          /\ DEFAULT_TEXTURES = _generate_default_textures(Q)
          /\ PLANET_ANIMATIONS = _generate_planet_animations(Q)
    /\ \A n \in DOMAIN planets :
          LET planet == planets[n] IN
          /\ \E i \in Bodies(PLANETS) : PLANETS[i] = planet.config
          /\ \A key \in DOMAIN planet.config :
                IF IsCustomKey(key)
                THEN key \in DOMAIN planet.custom
                     /\ planet.custom[key] = planet.config[key]
                ELSE key \notin DOMAIN planet.custom
          /\ DOMAIN planet.custom \subseteq DOMAIN planet.config

\* a registry whose earth and moon carry extension fields was accepted and
\* loaded: earth has the two attributes and not the field that only holds
\* "custom_" further on
C17_Witness ==
    /\ pc = "rotateAllCelestialBodys"
    /\ DOMAIN planets = {"earth", "moon"}
    /\ "ring_custom_" \in DOMAIN planets["earth"].config
    /\ DOMAIN planets["earth"].custom = {"custom_has_rings", "custom_color"}
    /\ planets["earth"].custom["custom_color"] = "blue"
    /\ planets["earth"].custom["custom_has_rings"] = TRUE
    /\ DOMAIN planets["moon"].custom = {"custom_has_rings", "custom_color"}

(***************************************************************************)
(* Property of the texture generators, checked under SpecTextures.         *)
(***************************************************************************)
\* C18: each of the five generators (terrestrial, gas giant, rocky, ice giant,
\* star) writes every pixel with its three channels within [0, 1], for every noise
\* value it is handed and every (u, v) sample, (0,0), (0.5,0.5) and (1,1) among
\* them.
C18_PixelClamping ==
    pixel.generator # "none" =>
        /\ pixel.generator \in {"terrestrial", "gas_giant", "rocky", "ice_giant", "star"}
        /\ 0 <= pixel.r /\ pixel.r <= Unit
        /\ 0 <= pixel.g /\ pixel.g <= Unit
        /\ 0 <= pixel.b /\ pixel.b <= Unit

\* the star generator at (1, 1) with the brightest noise: the red channel, 1.2
\* before the clamp, was written as 1
C18_Witness ==
    /\ pixel.generator = "star"
    /\ pixel.u = 1000 /\ pixel.v = 1000
    /\ pixel.inputs = <<2000, 2000, 2000>>
    /\ pixel.r = 1000
    /\ pixel.g = 1000
    /\ pixel.b = 720

(***************************************************************************)
(* Properties of the positions of the moons, checked under SpecLoader.     *)
(***************************************************************************)
\* the positions in PLANETS of the loaded moons with a positive orbit_au
LoadedMoons ==
    {i \in 1 .. Len(PLANETS) :
        /\ HasParent(PLANETS[i])
        /\ PLANETS[i]["orbit_au"] > 0
        /\ Has(planets, PLANETS[i]["name"])}

\* positive values of orbit_au
OtherDistances == {1000, 2000, 5000}

\* the registry P with the orbit_au of body i replaced
WithOrbitAu(P, i, orbit_au) == [P EXCEPT ![i] = [P[i] EXCEPT !["orbit_au"] = orbit_au]]

\* the scene loadAllCelestialBodys builds for registry P
SceneOf(P) == loadAllCelestialBodys(NewLoader, P).scene

\* C19 as stated: two registries that differ only in a moon's positive orbit_au
\* give the same offsets for the moon's orbit-root and for the moon's mesh.
C19_AsStated ==
    LoadRan =>
        \A i \in LoadedMoons, orbit_au \in OtherDistances :
            LET name == PLANETS[i]["name"]
                other == SceneOf(WithOrbitAu(PLANETS, i, orbit_au))
            IN  /\ other[OrbitRootNode(name)] = scene[OrbitRootNode(name)]
                /\ other[ModelNode(name)] = scene[ModelNode(name)]

\* C19: two registries that differ only in a moon's positive orbit_au give the
\* same offsets for the node _load_moon creates under the parent's orbit root and
\* for the moon's orbit-root, and the same scene but for the moon's mesh; the mesh
\* lies at orbit_au x orbit scale from the moon's orbit-root in each.
C19_FixedMoonDistance ==
    LoadRan =>
        \A i \in LoadedMoons, orbit_au \in OtherDistances :
            LET name == PLANETS[i]["name"]
                other == SceneOf(WithOrbitAu(PLANETS, i, orbit_au))
            IN  /\ DOMAIN other = DOMAIN scene
                /\ \A n \in DOMAIN scene \ {ModelNode(name)} : other[n] = scene[n]
                /\ scene[OrbitRootNode(name)] = Node(MoonOrbitRootNode(name), 0)
                /\ scene[ModelNode(name)] =
                      Node(OrbitRootNode(name), PLANETS[i]["orbit_au"] * ORBIT_SCALE)
                /\ other[ModelNode(name)] =
                      Node(OrbitRootNode(name), orbit_au * ORBIT_SCALE)

\* a moon of earth configured with orbit_au 0.2: its mesh lies 2.0 from its
\* orbit-root, where orbit_au 0.1 would put it at 1.0
C19_Witness ==
    /\ pc = "rotateAllCelestialBodys"
    /\ Len(PLANETS) = 2
    /\ NamesIn(PLANETS) = <<"earth", "moon">>
    /\ PLANETS[2]["orbit_au"] = 2000
    /\ LoadedMoons = {2}
    /\ scene["model_moon"] = Node("orbit_root_moon", 20000)
    /\ SceneOf(WithOrbitAu(PLANETS, 2, 1000))["model_moon"] = Node("orbit_root_moon", 10000)
    /\ scene["orbit_root_moon"] = Node("moon_orbit_root_moon", 0)

\* C20 as stated: for every loaded moon, the node _load_moon created under the
\* parent's orbit-root lies at parent orbit_au x orbit scale, which is where the
\* parent's mesh lies, whichever body is the parent.
C20_MoonPivotPlacement ==
    LoadRan =>
        \A name \in DOMAIN planets :
            HasParent(planets[name].config) =>
                LET parent == planets[planets[name].config["parent"]] IN
                /\ Has(scene, MoonOrbitRootNode(name))
                /\ scene[MoonOrbitRootNode(name)].parent = parent.orbit_root
                /\ scene[MoonOrbitRootNode(name)].x =
                      parent.config["orbit_au"] * ORBIT_SCALE
                /\ scene[MoonOrbitRootNode(name)].x = scene[parent.model].x

\* a moon of mars: the node made for it lies at 10 under the orbit-root of mars,
\* the mesh of mars at 15.2
C20_Witness ==
    /\ pc = "rotateAllCelestialBodys"
    /\ Len(PLANETS) = 2
    /\ NamesIn(PLANETS) = <<"mars", "moon">>
    /\ planets["moon"].config["parent"] = "mars"
    /\ scene["moon_orbit_root_moon"] = Node("orbit_root_mars", 100000)
    /\ scene["model_mars"] = Node("orbit_root_mars", 152000)

(***************************************************************************)
(* Property of the key handlers for extended registries, checked under     *)
(* SpecExtended.                                                           *)
(***************************************************************************)
\* C21 as stated: for every valid registry the animation-key table the
\* ActionHandler iterates equals the derived table of the registry and covers the
\* keys the loader registered, so that 'r', '+', '-' and space reach every
\* registered animation.
C21_RegistryExtension ==
    pc = "running" =>
        /\ ActionHandler_PLANET_ANIMATIONS = PLANET_ANIMATIONS
        /\ HandlerKeys = DOMAIN cbAttDic
        /\ lastKey = "r" => \A k \in DOMAIN cbAttDic : Rate(cbAttDic, k) = 0
        /\ lastKey \in {"+", "-"} =>
              \A k \in DOMAIN cbAttDic :
                  Rate(cbAttDic, k) - Rate(before.cbAttDic, k)
                      = Rate(cbAttDic, "sunDay") - Rate(before.cbAttDic, "sunDay")
        /\ lastKey = "space" =>
              \A k \in DOMAIN cbAttDic :
                  before.cbAttDic[k].playing = before.simRunning
                      => cbAttDic[k].playing = simRunning

\* saturn added to the registry: after 'r' the sun stands still and the readout
\* says 0.0 while both animations of saturn still run at rate 1
C21_Witness ==
    /\ pc = "running"
    /\ NamesIn(PLANETS) = <<"sun", "earth", "saturn">>
    /\ PLANET_ANIMATIONS["saturn"] = <<"saturnDay", "saturnOrbit">>
    /\ {"saturnDay", "saturnOrbit"} \subseteq DOMAIN cbAttDic
    /\ lastKey = "r"
    /\ Rate(cbAttDic, "sunDay") = 0
    /\ Rate(cbAttDic, "earthOrbit") = 0
    /\ text["speedText"] = "Speed x 0.0"
    /\ Rate(cbAttDic, "saturnDay") = 1
    /\ Rate(cbAttDic, "saturnOrbit") = 1

(***************************************************************************)
(* Properties of the error paths of the loader, checked under SpecRegistry. *)
(***************************************************************************)
\* the bodies _load_moon reached and skipped: their parent is not in planets
SkippedMoons ==
    {i \in Bodies(PLANETS) :
        /\ HasParent(PLANETS[i])
        /\ NameOf(PLANETS[i]) \in Range(loadLog)
        /\ PLANETS[i]["parent"] \notin DOMAIN planets}

\* rotateAllCelestialBodys has run
RotateRan == pc \in {"ActionHandler", "initAll", "SpecialClass", "run", "running"}
             \/ (pc = "crashed" /\ report.detail = "setPos")

\* the registry has a body named sun
NamesSun(P) == \E i \in Bodies(P) : NameOf(P[i]) = "sun"

\* C22 as stated: when _load_moon finds a moon's parent not loaded, the moon gets
\* no entry in planets, in the texture slots or among the animations, every other
\* body is loaded and animated, and the process does not exit.
C22_MissingParentRecoverable ==
    LoadRan /\ NamesSun(PLANETS) /\ SkippedMoons # {} =>
        /\ \A i \in SkippedMoons :
              LET name == NameOf(PLANETS[i]) IN
              /\ name \notin DOMAIN planets
              /\ {name, name \o "Tex"} \cap DOMAIN cbAttTex = {}
              /\ {name \o "Day", name \o "Orbit"} \cap DOMAIN cbAttDic = {}
        /\ \A i \in Bodies(PLANETS) \ SkippedMoons :
              LET name == NameOf(PLANETS[i]) IN
              /\ name \in DOMAIN planets
              /\ {name, name \o "Tex"} \subseteq DOMAIN cbAttTex
              /\ RotateRan => (name \o "Day") \in DOMAIN cbAttDic
        /\ Range(loadLog) = Range(NamesIn(PLANETS))
        /\ pc \notin {"exited", "crashed"}

\* the sun configured as its own parent: accepted by the validation, skipped by
\* _load_moon, and SpecialClass then fails on the sun that is None
C22_Witness ==
    /\ Len(PLANETS) = 2
    /\ Complete(PLANETS)
    /\ NamesIn(PLANETS) = <<"earth", "sun">>
    /\ ~HasParent(PLANETS[1])
    /\ HasParent(PLANETS[2]) /\ PLANETS[2]["parent"] = "sun"
    /\ loadLog = <<"earth", "sun">>
    /\ DOMAIN planets = {"earth"}
    /\ "earthDay" \in DOMAIN cbAttDic
    /\ specialSun = "None"
    /\ pc = "crashed"
    /\ report.kind = "AttributeError"
    /\ report.detail = "setPos"

(***************************************************************************)
(* Property of the texture handlers when loads fail, checked under         *)
(* SpecFailures.                                                           *)
(***************************************************************************)
\* the path the handler of the last key asked loadTexture for, for body n
RequestedPath(n) ==
    IF lastKey = "t"
    THEN IF before.usingOriginalTextures
         THEN MODELS_PATH \o "weiss.jpg"
         ELSE MODELS_PATH \o DEFAULT_TEXTURES[n]
    ELSE MODELS_PATH \o EasterEggKeys[lastKey] \o ".jpg"

\* C23: after 't' or an easter-egg key, every body whose texture load failed
\* keeps its texture slot and its applied texture, every body whose load
\* succeeded, before or after a failing one, has the new texture, no animation
\* and no text changed, and the render loop goes on.
C23_TextureLoadFailureRecoverable ==
    lastKey \in {"t"} \cup DOMAIN EasterEggKeys =>
        /\ pc = "running"
        /\ \A n \in Range(PLANET_NAMES) :
              LET model == cbAttTex[n] IN
              /\ model = before.cbAttTex[n]
              /\ IF RequestedPath(n) \in failed
                 THEN /\ cbAttTex[n \o "Tex"] = before.cbAttTex[n \o "Tex"]
                      /\ applied[model] = before.applied[model]
                 ELSE /\ cbAttTex[n \o "Tex"] = RequestedPath(n)
                      /\ applied[model] = RequestedPath(n)
        /\ DOMAIN cbAttTex = DOMAIN before.cbAttTex
        /\ cbAttDic = before.cbAttDic
        /\ simRunning = before.simRunning
        /\ text = before.text
        /\ instructionsVisible = before.instructionsVisible

\* 't' pressed with the white texture on every body and the file of earth
\* failing to load: earth stays white, the bodies before and after it in the
\* list have their own textures again
C23_Witness ==
    /\ lastKey = "t"
    /\ pc = "running"
    /\ failed = {MODELS_PATH \o DEFAULT_TEXTURES["earth"]}
    /\ ~before.usingOriginalTextures
    /\ \A n \in Range(PLANET_NAMES) : before.cbAttTex[n \o "Tex"] = MODELS_PATH \o "weiss.jpg"
    /\ cbAttTex["earthTex"] = MODELS_PATH \o "weiss.jpg"
    /\ applied[cbAttTex["earth"]] = MODELS_PATH \o "weiss.jpg"
    /\ cbAttTex["sunTex"] = MODELS_PATH \o DEFAULT_TEXTURES["sun"]
    /\ cbAttTex["jupiterTex"] = MODELS_PATH \o DEFAULT_TEXTURES["jupiter"]
    /\ applied[cbAttTex["jupiter"]] = MODELS_PATH \o DEFAULT_TEXTURES["jupiter"]

(***************************************************************************)
(* Invariants of the key handlers, checked under Spec.                     *)
(***************************************************************************)
\* the rate the readout shows
SunRate == Rate(cbAttDic, "sunDay")

\* C24: while the application runs, every animation outside earth_moon_keys has
\* the play rate of sunDay, the four animations of earth and moon share one rate,
\* and that rate minus the rate of sunDay is a non-negative multiple of 100: it
\* grows by 100 with 'z' and is 0 right after 'r', after '+' pressed at rate -1
\* and after '-' pressed at rate 1.
C24_RateOffset ==
    pc = "running" =>
        LET offset == Rate(cbAttDic, "earthDay") - SunRate IN
        /\ earth_moon_keys \subseteq DOMAIN cbAttDic
        /\ \A k \in DOMAIN cbAttDic \ earth_moon_keys : Rate(cbAttDic, k) = SunRate
        /\ \A k \in earth_moon_keys : Rate(cbAttDic, k) = Rate(cbAttDic, "earthDay")
        /\ offset >= 0
        /\ offset % 100 = 0
        /\ lastKey = "z" =>
              offset = Rate(before.cbAttDic, "earthDay")
                           - Rate(before.cbAttDic, "sunDay") + 100
        /\ lastKey = "r" => offset = 0
        /\ lastKey = "+" /\ Rate(before.cbAttDic, "sunDay") = -1 => offset = 0
        /\ lastKey = "-" /\ Rate(before.cbAttDic, "sunDay") = 1 => offset = 0

\* '+' pressed at rate -1 with earth and moon 100 ahead: every animation is at
\* rate 1 and the offset is gone
C24_Witness ==
    /\ pc = "running"
    /\ lastKey = "+"
    /\ Rate(before.cbAttDic, "sunDay") = -1
    /\ Rate(before.cbAttDic, "moonOrbit") = 99
    /\ AllRates(cbAttDic, 1)

\* C25: while the application runs, the rate of sunDay is not 0 after '+' or
\* '-', whatever it was before; only '+', '-' and 'r' change it; and it becomes 0
\* only in a step of 'r'.
C25_ZeroOnlyByReset ==
    /\ [](pc = "running" /\ lastKey \in {"none", "+", "-"} => SunRate # 0)
    /\ [][pc = "running" /\ pc' = "running" =>
             /\ SunRate' # SunRate => lastKey' \in {"+", "-", "r"}
             /\ SunRate' = 0 /\ SunRate # 0 => lastKey' = "r"
             /\ lastKey' \in {"+", "-"} => SunRate' # 0
             /\ lastKey' = "r" => SunRate' = 0]_vars

\* '+' pressed at rate -1: the rate went to 1, past 0
C25_Witness ==
    /\ pc = "running"
    /\ lastKey = "+"
    /\ Rate(before.cbAttDic, "sunDay") = -1
    /\ SunRate = 1

\* C26: from a state in which every animation has the same rate r other than 0,
\* '+' then '-' and '-' then '+' bring every animation back to r; from the state
\* with every rate 0 '+' then '-' ends with every rate -1 and '-' then '+' with
\* every rate 1.
C26_SpeedRoundTrip ==
    pc = "running" =>
        LET plusMinus == _slow_down(_speed_up(Snap)).cbAttDic
            minusPlus == _speed_up(_slow_down(Snap)).cbAttDic
        IN  /\ AllRates(cbAttDic, SunRate) /\ SunRate # 0 =>
                  /\ plusMinus = cbAttDic
                  /\ minusPlus = cbAttDic
            /\ AllRates(cbAttDic, 0) =>
                  /\ AllRates(plusMinus, -1)
                  /\ AllRates(minusPlus, 1)
            /\ lastKey = "-" /\ _speed_up(Snap).cbAttDic = before.cbAttDic
                  /\ AllRates(cbAttDic, SunRate) /\ SunRate # -1 =>
                  _slow_down(before).cbAttDic = cbAttDic

\* every animation at rate -1 after '-' pressed at rate 1: '+' then '-' goes
\* through 1 and back to -1
C26_Witness ==
    /\ pc = "running"
    /\ lastKey = "-"
    /\ AllRates(before.cbAttDic, 1)
    /\ AllRates(cbAttDic, -1)
    /\ AllRates(_speed_up(Snap).cbAttDic, 1)
    /\ _slow_down(_speed_up(Snap)).cbAttDic = cbAttDic

\* the bodies 'e' does not name
OtherBodies == {"sun", "mercury", "venus", "mars", "jupiter"}

Playing(d, k) == d[k].playing

\* C27: while the application runs, the Day and Orbit animations of every body
\* are both playing or both paused, earth's are playing exactly when the moon's
\* are, and sun, mercury, venus, mars and jupiter are all playing or all paused.
C27_PlayStateSynchrony ==
    pc = "running" =>
        /\ \A p \in DOMAIN ActionHandler_PLANET_ANIMATIONS :
              /\ KeysOf(p) \subseteq DOMAIN cbAttDic
              /\ \A k \in KeysOf(p) : Playing(cbAttDic, k) = Playing(cbAttDic, DayKey(p))
        /\ Playing(cbAttDic, "earthDay") = Playing(cbAttDic, "moonDay")
        /\ \A p, q \in OtherBodies :
              Playing(cbAttDic, DayKey(p)) = Playing(cbAttDic, DayKey(q))

\* 'e' pressed while the whole system was paused by space: earth and moon play,
\* the other bodies stay paused
C27_Witness ==
    /\ pc = "running"
    /\ lastKey = "e"
    /\ ~simRunning
    /\ \A k \in DOMAIN before.cbAttDic : ~Playing(before.cbAttDic, k)
    /\ \A k \in earth_moon_keys : Playing(cbAttDic, k)
    /\ \A p \in OtherBodies : \A k \in KeysOf(p) : ~Playing(cbAttDic, k)

\* C28: right after space every animation is playing if the new simRunning is
\* true and paused if it is false; from a running state with every animation
\* playing, 'e' followed by two space presses leaves earth and moon playing, not
\* paused as 'e' left them.
C28_GlobalPauseOverrides ==
    /\ lastKey = "space" =>
          \A k \in DOMAIN cbAttDic : Playing(cbAttDic, k) = simRunning
    /\ pc = "running" /\ simRunning /\ (\A k \in DOMAIN cbAttDic : Playing(cbAttDic, k)) =>
          LET e == _handle_earth(Snap)
              space1 == _handle_all(e)
              space2 == _handle_all(space1)
          IN  /\ \A k \in earth_moon_keys : ~Playing(e.cbAttDic, k)
              /\ \A k \in DOMAIN cbAttDic : ~Playing(space1.cbAttDic, k)
              /\ ~space1.simRunning
              /\ \A k \in DOMAIN cbAttDic : Playing(space2.cbAttDic, k)
              /\ space2.simRunning
              /\ space2.cbAttDic # e.cbAttDic

\* the second of two space presses: everything was paused, earth and moon
\* included, and everything plays again
C28_Witness ==
    /\ pc = "running"
    /\ lastKey = "space"
    /\ ~before.simRunning
    /\ \A k \in DOMAIN before.cbAttDic : ~Playing(before.cbAttDic, k)
    /\ simRunning
    /\ \A k \in DOMAIN cbAttDic : Playing(cbAttDic, k)
    /\ _handle_all(_handle_all(_handle_earth(Snap))).cbAttDic = cbAttDic

\* the textures 't' and the easter-egg keys put on every body
AlternateTextures ==
    {MODELS_PATH \o n \o ".jpg" : n \in {"weiss"} \cup Range(EasterEggKeys)}

\* the bodies with a model in cbAttTex
LoadedBodies == {n \in Range(PLANET_NAMES) : Has(cbAttTex, n)}

\* C29: while the application runs with every texture load succeeding,
\* usingOriginalTextures is true exactly when the texture slot of every loaded
\* body holds the texture of its default file of the registry; when it is false,
\* every loaded body holds one and the same alternate texture.
C29_TextureFlagConsistency ==
    pc = "running" =>
        /\ LoadedBodies = Range(PLANET_NAMES)
        /\ usingOriginalTextures <=>
              \A n \in LoadedBodies :
                  cbAttTex[n \o "Tex"] = MODELS_PATH \o DEFAULT_TEXTURES[n]
        /\ ~usingOriginalTextures =>
              \E t \in AlternateTextures :
                  \A n \in LoadedBodies :
                      /\ cbAttTex[n \o "Tex"] = t
                      /\ applied[cbAttTex[n]] = t
        /\ usingOriginalTextures =>
              \A n \in LoadedBodies :
                  applied[cbAttTex[n]] = MODELS_PATH \o DEFAULT_TEXTURES[n]

\* 't' pressed with the team texture on every body: the flag is true again and
\* every body has its default texture
C29_Witness ==
    /\ pc = "running"
    /\ lastKey = "t"
    /\ ~before.usingOriginalTextures
    /\ \A n \in LoadedBodies : before.cbAttTex[n \o "Tex"] = MODELS_PATH \o "team.jpg"
    /\ usingOriginalTextures
    /\ cbAttTex["earthTex"] = MODELS_PATH \o "earth_1k_tex.jpg"
    /\ cbAttTex["jupiterTex"] = MODELS_PATH \o "jupiter.jpg"

(***************************************************************************)
(* Property of the loader for accepted registries, checked under           *)
(* SpecRegistry.                                                           *)
(***************************************************************************)
\* C30 as stated: for every registry the validation accepts,
\* loadAllCelestialBodys ends without an exception and without skipping a moon,
\* whatever the parent of a moon is, and planets and the texture slots then hold
\* every name of the registry.
C30_ValidRegistriesLoadCompletely ==
    LoadRan /\ validate_planet_configuration(PLANETS) = Accepted =>
        /\ ~(pc = "crashed" /\ report.detail = "attachNewNode")
        /\ SkippedMoons = {}
        /\ DOMAIN planets = Range(NamesIn(PLANETS))
        /\ \A n \in Range(NamesIn(PLANETS)) : {n, n \o "Tex"} \subseteq DOMAIN cbAttTex

\* a moon of the sun: the registry was accepted, the sun has no orbit root, and
\* _load_moon raised before the moon was loaded
C30_Witness ==
    /\ Len(PLANETS) = 2
    /\ validate_planet_configuration(PLANETS) = Accepted
    /\ NamesIn(PLANETS) = <<"sun", "earth">>
    /\ PLANETS[1] = Body("sun", 0, FALSE)
    /\ HasParent(PLANETS[2]) /\ PLANETS[2]["parent"] = "sun"
    /\ pc = "crashed"
    /\ DOMAIN planets = {"sun"}
    /\ planets["sun"].orbit_root = "None"
    /\ report.kind = "AttributeError"
    /\ report.detail = "attachNewNode"

====
